---- MODULE Spec2Model ----
(***************************************************************************)
(* planpilot: the Plan -> Step -> Goal store and the App facade that       *)
(* mutates it (plugins/planpilot/src/app.rs).                              *)
(*                                                                         *)
(* The four tables are the state.  Every App operation is one action: it   *)
(* runs the handler against a transaction context (the working copy of     *)
(* the tables, the error raised so far, the change log) and then commits   *)
(* the working copy or rolls it back.  What a call returns (error, change  *)
(* log) is a value of the call, not of the store; properties of calls are  *)
(* stated over the calls that can be made in each reachable store.  The    *)
(* store may refuse the k-th statement of a call (fuel), which is how a    *)
(* store error at an intermediate write is produced.                       *)
(*                                                                         *)
(* Spec explores one plan in depth, SpecRegistry several plans side by     *)
(* side; both run the same operations.                                     *)
(*                                                                         *)
(* Rows carry the columns the engine reads or derives: status, plan_id,    *)
(* step_id, sort_order, last_session_id, session_id.  Titles, contents,    *)
(* comments, executors and timestamps are inputs that are validated but    *)
(* not kept in the rows of this model.                                     *)
(***************************************************************************)
EXTENDS Integers, Sequences, FiniteSets, TLC

\* ---------------------------------------------------------------- bounds
\* Spec: one plan in depth (ordering and the cascade over steps and goals)
MaxPlans == 1
MaxSteps == 2
MaxGoals == 2
\* SpecRegistry: several plans side by side (the active-plan registry)
RegPlans == 2
RegSteps == 1
RegGoals == 1
\* SpecOrder: one plan with enough steps to tell orders apart
OrdPlans == 1
OrdSteps == 3
OrdGoals == 1
\* longest batch of contents, ids or comment entries in one call
MaxBatch == 2
\* the store may refuse the 1st .. MaxFault-th statement of a call
MaxFault == 3

\* who a step may be assigned to where the assignment plays no part
OnlyAi == {"ai"}
Caps == [plans |-> MaxPlans, steps |-> MaxSteps, goals |-> MaxGoals, executors |-> OnlyAi]
RegCaps == [plans |-> RegPlans, steps |-> RegSteps, goals |-> RegGoals, executors |-> OnlyAi]
\* longest comment batch examined for repeated ids
MaxEntries == 3
\* SpecNormalize: the sort_order values normalize may be handed
MaxOrder == 4
\* SpecCli: the commands of the binary, steps assigned to ai or human
CliPlans == 1
CliSteps == 2
CliGoals == 1
CliCaps == [plans |-> CliPlans, steps |-> CliSteps, goals |-> CliGoals,
            executors |-> {"ai", "human"}]
\* SpecOrphan: plan ids a binding may name, stored or not
MaxNamed == 3
OrdCaps == [plans |-> OrdPlans, steps |-> OrdSteps, goals |-> OrdGoals, executors |-> OnlyAi]

Sessions == {"s1", "s2"}

\* concurrent invocations of the binary
Procs == {"p1", "p2"}

\* 0 = the store accepts every statement, k = the store refuses the k-th
Faults == 0..MaxFault
NoFault == {0}

\* ------------------------------------------------------ values and inputs
PlanStatus == {"todo", "done"}
StepStatus == {"todo", "done"}
GoalStatus == {"todo", "done"}
StepExecutor == {"ai", "human"}

\* Option<T>: {} is None, {v} is Some(v)
None == {}
Some(v) == {v}
Opt(S) == {None} \cup {{v} : v \in S}
IsSome(o) == o # {}
Unwrap(o) == CHOOSE v \in o : TRUE

\* texts are sequences of characters
Blank == <<" ">>
Word == <<"a">>
Texts == {Blank, Word}

RECURSIVE TrimStart(_)
TrimStart(s) ==
    IF s = <<>> THEN <<>>
    ELSE IF Head(s) = " " THEN TrimStart(Tail(s)) ELSE s

RECURSIVE TrimEnd(_)
TrimEnd(s) ==
    IF s = <<>> THEN <<>>
    ELSE IF s[Len(s)] = " " THEN TrimEnd(SubSeq(s, 1, Len(s) - 1)) ELSE s

Trim(s) == TrimEnd(TrimStart(s))

SeqsUpTo(S, n) == UNION {[1..k -> S] : k \in 0..n}

\* ------------------------------------------------------------- the state
VARIABLES plans, steps, goals, active_plan, seq

\* invocations of the binary on one data directory: guard is the invocation
\* holding the write guard of the lock file (None: the lock is free), pc is
\* where each invocation stands in run(), seen is the store as the
\* invocation's command read it
VARIABLES guard, pc, seen

vars == <<plans, steps, goals, active_plan, seq, guard, pc, seen>>

invocation == <<guard, pc, seen>>

\* the committed store as one value
Store == [plans |-> plans, steps |-> steps, goals |-> goals,
          active_plan |-> active_plan, seq |-> seq]

EmptyFn == [x \in {} |-> x]

EmptyStore == [plans |-> EmptyFn, steps |-> EmptyFn, goals |-> EmptyFn,
               active_plan |-> {},
               seq |-> [plan |-> 0, step |-> 0, goal |-> 0]]

\* ---------------------------------------------------------- change log
StatusChangesDefault == [steps |-> <<>>, plans |-> <<>>, active_plans_cleared |-> <<>>]

is_empty(c) == c.steps = <<>> /\ c.plans = <<>> /\ c.active_plans_cleared = <<>>

\* ------------------------------------------------- transaction context
\* what an error message names: a kind, the ids it lists, a name
NoRef == [what |-> "", ids |-> <<>>, name |-> ""]

Ref(what, ids, name) == [what |-> what, ids |-> ids, name |-> name]

\* db: working copy; err: "none" | "NotFound" | "InvalidInput" | "Db";
\* ref: what the error names; fuel: statements left before the store
\* refuses one (0 = never); log: StatusChanges; flag: a helper's bool result;
\* count: the u64 an operation returns; rows: the ids of the Vec of models
\* it returns, in order; written: the <<id, comment>> pairs whose comment
\* UPDATE the transaction has executed, in order
Begin(db, fuel) == [db |-> db, err |-> "none", ref |-> NoRef, fuel |-> fuel,
                    log |-> StatusChangesDefault, flag |-> FALSE,
                    count |-> 0, rows |-> <<>>, written |-> <<>>]

Fail(t, kind, ref) == IF t.err # "none" THEN t ELSE [t EXCEPT !.err = kind, !.ref = ref]

Ok(t) == t.err = "none"

\* one statement against the store
Exec(t, newdb) ==
    IF t.err # "none" THEN t
    ELSE IF t.fuel = 1 THEN [t EXCEPT !.err = "Db", !.ref = Ref("store", <<>>, "")]
    ELSE [t EXCEPT !.db = newdb, !.fuel = IF @ = 0 THEN 0 ELSE @ - 1]

\* ------------------------------------------------------------- validation
ensure_non_empty(t, label, value) ==
    IF Trim(value) = <<>> THEN Fail(t, "InvalidInput", Ref("blank", <<>>, label))
    ELSE t

RECURSIVE ensure_all_non_empty(_, _, _)
ensure_all_non_empty(t, label, values) ==
    IF values = <<>> THEN t
    ELSE ensure_all_non_empty(ensure_non_empty(t, label, Head(values)), label, Tail(values))

ensure_opt_non_empty(t, label, o) ==
    IF IsSome(o) THEN ensure_non_empty(t, label, Unwrap(o)) ELSE t

\* ---------------------------------------------------------------- queries
RECURSIVE AscSeq(_)
AscSeq(S) ==
    IF S = {} THEN <<>>
    ELSE LET m == CHOOSE x \in S : \A y \in S : x <= y
         IN <<m>> \o AscSeq(S \ {m})

StepsOfPlan(db, plan_id) == {i \in DOMAIN db.steps : db.steps[i].plan_id = plan_id}

GoalsOfStep(db, step_id) == {g \in DOMAIN db.goals : db.goals[g].step_id = step_id}

\* ORDER BY sort_order ASC, id ASC
RECURSIVE OrderBySortOrderId(_, _)
OrderBySortOrderId(db, S) ==
    IF S = {} THEN <<>>
    ELSE LET m == CHOOSE x \in S : \A y \in S :
                     \/ db.steps[x].sort_order < db.steps[y].sort_order
                     \/ /\ db.steps[x].sort_order = db.steps[y].sort_order
                        /\ x <= y
         IN <<m>> \o OrderBySortOrderId(db, S \ {m})

OrderedSteps(db, plan_id) == OrderBySortOrderId(db, StepsOfPlan(db, plan_id))

Range(s) == {s[i] : i \in 1..Len(s)}

\* the id list taken as given, duplicates kept
ids_as_given(ids) == ids

RECURSIVE unique_ids(_)
unique_ids(ids) ==
    IF ids = <<>> THEN <<>>
    ELSE LET init == unique_ids(SubSeq(ids, 1, Len(ids) - 1))
             x == ids[Len(ids)]
         IN IF x \in Range(init) THEN init ELSE Append(init, x)

\* first-seen order of f[x] over the sequence xs
RECURSIVE FirstSeen(_, _)
FirstSeen(f, xs) ==
    IF xs = <<>> THEN <<>>
    ELSE LET init == FirstSeen(f, SubSeq(xs, 1, Len(xs) - 1))
             v == f[xs[Len(xs)]]
         IN IF v \in Range(init) THEN init ELSE Append(init, v)

\* a plausible slip: the pending steps are ordered by id alone
next_step_by_id(db, plan_id) ==
    LET todo == {i \in StepsOfPlan(db, plan_id) : db.steps[i].status = "todo"}
    IN IF todo = {} THEN None ELSE Some(Head(AscSeq(todo)))

next_step_with_conn(db, plan_id) ==
    LET todo == {i \in StepsOfPlan(db, plan_id) : db.steps[i].status = "todo"}
    IN IF todo = {} THEN None ELSE Some(Head(OrderBySortOrderId(db, todo)))

\* a plausible slip: ORDER BY id DESC
next_goal_newest_first(db, step_id) ==
    LET todo == {g \in GoalsOfStep(db, step_id) : db.goals[g].status = "todo"}
    IN IF todo = {} THEN None ELSE Some(CHOOSE g \in todo : \A h \in todo : h <= g)

next_goal_for_step_with_conn(db, step_id) ==
    LET todo == {g \in GoalsOfStep(db, step_id) : db.goals[g].status = "todo"}
    IN IF todo = {} THEN None ELSE Some(Head(AscSeq(todo)))

\* ------------------------------------------------------------ statements
Without(f, S) == [x \in DOMAIN f \ S |-> f[x]]

InsertPlan(t, session_id) ==
    LET id == t.db.seq.plan + 1
        row == [status |-> "todo", last_session_id |-> session_id]
    IN Exec(t, [t.db EXCEPT !.plans = @ @@ (id :> row), !.seq.plan = id])

\* a plausible slip: a new step is stored Done whatever status was asked
InsertStepDone(t, plan_id, status, executor, sort_order) ==
    LET id == t.db.seq.step + 1
        row == [plan_id |-> plan_id, status |-> "done", executor |-> executor,
                sort_order |-> sort_order]
    IN Exec(t, [t.db EXCEPT !.steps = @ @@ (id :> row), !.seq.step = id])

InsertStep(t, plan_id, status, executor, sort_order) ==
    LET id == t.db.seq.step + 1
        row == [plan_id |-> plan_id, status |-> status, executor |-> executor,
                sort_order |-> sort_order]
    IN Exec(t, [t.db EXCEPT !.steps = @ @@ (id :> row), !.seq.step = id])

InsertGoal(t, step_id, status) ==
    LET id == t.db.seq.goal + 1
        row == [step_id |-> step_id, status |-> status]
    IN Exec(t, [t.db EXCEPT !.goals = @ @@ (id :> row), !.seq.goal = id])

\* The unique indexes on active_plan.session_id and active_plan.plan_id
\* (db.rs, ensure_schema) would refuse a second row for a session or a plan.
\* The store modelled here accepts any row, so that NoDuplicateBinding rests
\* on what set_active_plan deletes before it inserts.
InsertActivePlan(t, session_id, plan_id) ==
    Exec(t, [t.db EXCEPT !.active_plan = @ \cup {[session_id |-> session_id, plan_id |-> plan_id]}])

\* a plausible slip: the caller's previous binding is left in place
KeepActiveBySession(t, session_id) == Exec(t, t.db)

\* a plausible slip: the delete has no session filter
DeleteActiveOfAnySession(t, session_id) ==
    Exec(t, [t.db EXCEPT !.active_plan = {}])

DeleteActiveBySession(t, session_id) ==
    Exec(t, [t.db EXCEPT !.active_plan = {r \in @ : r.session_id # session_id}])

\* the reassignment delete left out: the row of the plan's previous session stays
KeepActiveByPlan(t, plan_id) == Exec(t, t.db)

DeleteActiveByPlan(t, plan_id) ==
    Exec(t, [t.db EXCEPT !.active_plan = {r \in @ : r.plan_id # plan_id}])

\* the goal delete left out: the goals of deleted steps stay behind
KeepGoalsByStep(t, ids) == Exec(t, t.db)

DeleteGoalsByStep(t, ids) ==
    Exec(t, [t.db EXCEPT !.goals = Without(@, {g \in DOMAIN @ : @[g].step_id \in ids})])

DeleteGoalsById(t, ids) ==
    Exec(t, [t.db EXCEPT !.goals = Without(@, ids)])

DeleteStepsById(t, ids) ==
    Exec(t, [t.db EXCEPT !.steps = Without(@, ids)])

\* the step delete left out: the steps of a deleted plan stay behind
KeepStepsByPlan(t, plan_id) == Exec(t, t.db)

DeleteStepsByPlan(t, plan_id) ==
    Exec(t, [t.db EXCEPT !.steps = Without(@, {i \in DOMAIN @ : @[i].plan_id = plan_id})])

\* ActiveModel::update: UPDATE ... WHERE id; no row updated is an error,
\* which the caller reports as `missing` ("NotFound" or "Db")
UpdatePlan(t, id, row, missing) ==
    IF t.err # "none" THEN t
    ELSE IF id \notin DOMAIN t.db.plans /\ t.fuel # 1
         THEN Fail(t, missing, Ref("plan", <<id>>, ""))
    ELSE Exec(t, [t.db EXCEPT !.plans[id] = row])

UpdateStep(t, id, row, missing) ==
    IF t.err # "none" THEN t
    ELSE IF id \notin DOMAIN t.db.steps /\ t.fuel # 1
         THEN Fail(t, missing, Ref("step", <<id>>, ""))
    ELSE Exec(t, [t.db EXCEPT !.steps[id] = row])

UpdateGoal(t, id, row, missing) ==
    IF t.err # "none" THEN t
    ELSE IF id \notin DOMAIN t.db.goals /\ t.fuel # 1
         THEN Fail(t, missing, Ref("goal", <<id>>, ""))
    ELSE Exec(t, [t.db EXCEPT !.goals[id] = row])

\* ------------------------------------------------------------ plan touch
\* a plausible slip: the plan is written back without the caller's session
touch_without_session(t, session_id, plan_id) ==
    IF t.err # "none" THEN t
    ELSE UpdatePlan(t, plan_id,
                    IF plan_id \in DOMAIN t.db.plans THEN t.db.plans[plan_id] ELSE <<>>,
                    "NotFound")

touch_plan_with_conn(t, session_id, plan_id) ==
    IF t.err # "none" THEN t
    ELSE UpdatePlan(t, plan_id,
                    IF plan_id \in DOMAIN t.db.plans
                    THEN [t.db.plans[plan_id] EXCEPT !.last_session_id = session_id]
                    ELSE <<>>,
                    "NotFound")

RECURSIVE touch_plans_with_conn(_, _, _)
touch_plans_with_conn(t, session_id, plan_ids) ==
    IF plan_ids = <<>> THEN t
    ELSE touch_plans_with_conn(touch_plan_with_conn(t, session_id, Head(plan_ids)),
                               session_id, Tail(plan_ids))

\* ---------------------------------------------------------- the cascade
\* a plausible slip: only the calling session's binding is deleted
clear_current_session_only(t, session_id, plan_id) ==
    IF t.err # "none" THEN t
    ELSE LET cleared_current ==
                 \E r \in t.db.active_plan :
                     r.plan_id = plan_id /\ r.session_id = session_id
             t1 == Exec(t, [t.db EXCEPT !.active_plan =
                       {r \in @ : ~(r.plan_id = plan_id /\ r.session_id = session_id)}])
         IN [t1 EXCEPT !.flag = cleared_current]

clear_active_plans_for_plan_with_conn(t, session_id, plan_id) ==
    IF t.err # "none" THEN t
    ELSE LET cleared_current ==
                 \E r \in t.db.active_plan :
                     r.plan_id = plan_id /\ r.session_id = session_id
             t1 == DeleteActiveByPlan(t, plan_id)
         IN [t1 EXCEPT !.flag = cleared_current]

\* a plausible slip: no early return for a plan without steps, so that
\* done = total = 0 counts as all done
refresh_plan_status_vacuous(t, session_id, plan_id) ==
    IF t.err # "none" THEN t
    ELSE
    LET ids == StepsOfPlan(t.db, plan_id)
        total == Cardinality(ids)
        done == Cardinality({i \in ids : t.db.steps[i].status = "done"})
        status == IF done = total THEN "done" ELSE "todo"
    IN  IF plan_id \notin DOMAIN t.db.plans
             THEN Fail(t, "NotFound", Ref("plan", <<plan_id>>, ""))
        ELSE LET plan == t.db.plans[plan_id] IN
        IF plan.status = status THEN t
        ELSE
        LET t1 == UpdatePlan(t, plan_id, [plan EXCEPT !.status = status], "Db")
            t2 == IF Ok(t1)
                  THEN [t1 EXCEPT !.log.plans = Append(@,
                            [plan_id |-> plan_id, from |-> plan.status, to |-> status,
                             reason |-> <<done, total>>])]
                  ELSE t1
            t3 == IF status = "done"
                  THEN clear_active_plans_for_plan_with_conn(t2, session_id, plan_id)
                  ELSE t2
        IN  IF status = "done" /\ Ok(t3) /\ t3.flag
            THEN [t3 EXCEPT !.log.active_plans_cleared = Append(@,
                      [plan_id |-> plan_id, reason |-> "plan marked done"])]
            ELSE t3

\* a plausible slip: a plan that is Done is never set back to Todo
refresh_plan_status_never_reopens(t, session_id, plan_id) ==
    IF t.err # "none" THEN t
    ELSE
    LET ids == StepsOfPlan(t.db, plan_id)
        total == Cardinality(ids)
        done == Cardinality({i \in ids : t.db.steps[i].status = "done"})
        status == IF done = total \/ t.db.plans[plan_id].status = "done" THEN "done" ELSE "todo"
    IN  IF total = 0 THEN t
        ELSE IF plan_id \notin DOMAIN t.db.plans
             THEN Fail(t, "NotFound", Ref("plan", <<plan_id>>, ""))
        ELSE LET plan == t.db.plans[plan_id] IN
        IF plan.status = status THEN t
        ELSE
        LET t1 == UpdatePlan(t, plan_id, [plan EXCEPT !.status = status], "Db")
            t2 == IF Ok(t1)
                  THEN [t1 EXCEPT !.log.plans = Append(@,
                            [plan_id |-> plan_id, from |-> plan.status, to |-> status,
                             reason |-> <<done, total>>])]
                  ELSE t1
            t3 == IF status = "done"
                  THEN clear_active_plans_for_plan_with_conn(t2, session_id, plan_id)
                  ELSE t2
        IN  IF status = "done" /\ Ok(t3) /\ t3.flag
            THEN [t3 EXCEPT !.log.active_plans_cleared = Append(@,
                      [plan_id |-> plan_id, reason |-> "plan marked done"])]
            ELSE t3

\* a plausible slip: the plan is written and logged also when its status
\* is already the computed one
refresh_plan_status_logging_always(t, session_id, plan_id) ==
    IF t.err # "none" THEN t
    ELSE
    LET ids == StepsOfPlan(t.db, plan_id)
        total == Cardinality(ids)
        done == Cardinality({i \in ids : t.db.steps[i].status = "done"})
        status == IF done = total THEN "done" ELSE "todo"
    IN  IF total = 0 THEN t
        ELSE IF plan_id \notin DOMAIN t.db.plans
             THEN Fail(t, "NotFound", Ref("plan", <<plan_id>>, ""))
        ELSE
        LET plan == t.db.plans[plan_id]
            t1 == UpdatePlan(t, plan_id, [plan EXCEPT !.status = status], "Db")
        IN  IF Ok(t1)
            THEN [t1 EXCEPT !.log.plans = Append(@,
                      [plan_id |-> plan_id, from |-> plan.status, to |-> status,
                       reason |-> <<done, total>>])]
            ELSE t1

refresh_plan_status_with_conn(t, session_id, plan_id) ==
    IF t.err # "none" THEN t
    ELSE
    LET ids == StepsOfPlan(t.db, plan_id)
        total == Cardinality(ids)
        done == Cardinality({i \in ids : t.db.steps[i].status = "done"})
        status == IF done = total THEN "done" ELSE "todo"
    IN  IF total = 0 THEN t
        ELSE IF plan_id \notin DOMAIN t.db.plans
             THEN Fail(t, "NotFound", Ref("plan", <<plan_id>>, ""))
        ELSE LET plan == t.db.plans[plan_id] IN
        IF plan.status = status THEN t
        ELSE
        LET t1 == UpdatePlan(t, plan_id, [plan EXCEPT !.status = status], "Db")
            t2 == IF Ok(t1)
                  THEN [t1 EXCEPT !.log.plans = Append(@,
                            [plan_id |-> plan_id, from |-> plan.status, to |-> status,
                             reason |-> <<done, total>>])]
                  ELSE t1
            t3 == IF status = "done"
                  THEN clear_active_plans_for_plan_with_conn(t2, session_id, plan_id)
                  ELSE t2
        IN  IF status = "done" /\ Ok(t3) /\ t3.flag
            THEN [t3 EXCEPT !.log.active_plans_cleared = Append(@,
                      [plan_id |-> plan_id, reason |-> "plan marked done"])]
            ELSE t3

\* a plausible slip: the step is recomputed, its plan is not
refresh_step_status_only(t, session_id, step_id) ==
    IF t.err # "none" THEN t
    ELSE
    LET ids == GoalsOfStep(t.db, step_id)
        total == Cardinality(ids)
        done == Cardinality({g \in ids : t.db.goals[g].status = "done"})
        status == IF done = total THEN "done" ELSE "todo"
    IN  IF total = 0 THEN t
        ELSE IF step_id \notin DOMAIN t.db.steps
             THEN Fail(t, "NotFound", Ref("step", <<step_id>>, ""))
        ELSE
        LET step == t.db.steps[step_id]
            t1 == IF step.status = status THEN t
                  ELSE UpdateStep(t, step_id, [step EXCEPT !.status = status], "Db")
        IN  IF step.status # status /\ Ok(t1)
            THEN [t1 EXCEPT !.log.steps = Append(@,
                      [step_id |-> step_id, from |-> step.status, to |-> status,
                       reason |-> <<done, total>>])]
            ELSE t1

refresh_step_status_with_conn(t, session_id, step_id) ==
    IF t.err # "none" THEN t
    ELSE
    LET ids == GoalsOfStep(t.db, step_id)
        total == Cardinality(ids)
        done == Cardinality({g \in ids : t.db.goals[g].status = "done"})
        status == IF done = total THEN "done" ELSE "todo"
    IN  IF total = 0 THEN t
        ELSE IF step_id \notin DOMAIN t.db.steps
             THEN Fail(t, "NotFound", Ref("step", <<step_id>>, ""))
        ELSE
        LET step == t.db.steps[step_id]
            t1 == IF step.status = status THEN t
                  ELSE UpdateStep(t, step_id, [step EXCEPT !.status = status], "Db")
            t2 == IF step.status # status /\ Ok(t1)
                  THEN [t1 EXCEPT !.log.steps = Append(@,
                            [step_id |-> step_id, from |-> step.status, to |-> status,
                             reason |-> <<done, total>>])]
                  ELSE t1
        IN refresh_plan_status_with_conn(t2, session_id, step.plan_id)

\* ------------------------------------------------------------- transactions
\* commit on Ok, roll back on Err; a transaction dropped on an early return
\* rolls back as well
\* a plausible slip: the transaction is committed whatever the result
finalize_commit_always(db, t) == t.db

finalize_transaction(db, t) == IF Ok(t) THEN t.db ELSE db

\* statements run on the bare connection are committed one by one
autocommit(db, t) == t.db

\* ------------------------------------------------------ ordering engine
\* steps: ids in (sort_order, id) order; k: 0-based index of the next one
\* a plausible slip: every row is written, whether its order changes or not
RECURSIVE normalize_from_always(_, _, _)
normalize_from_always(t, ordered, k) ==
    IF k >= Len(ordered) \/ t.err # "none" THEN t
    ELSE LET id == ordered[k + 1]
             row == t.db.steps[id]
             t1 == UpdateStep(t, id, [row EXCEPT !.sort_order = k + 1], "Db")
         IN normalize_from_always(t1, ordered, k + 1)

RECURSIVE normalize_from(_, _, _)
normalize_from(t, ordered, k) ==
    IF k >= Len(ordered) \/ t.err # "none" THEN t
    ELSE LET id == ordered[k + 1]
             row == t.db.steps[id]
             desired_order == k + 1
             t1 == IF row.sort_order # desired_order
                   THEN UpdateStep(t, id, [row EXCEPT !.sort_order = desired_order], "Db")
                   ELSE t
         IN normalize_from(t1, ordered, k + 1)

normalize_steps_in_place(t, ordered) == normalize_from(t, ordered, 0)

normalize_steps_for_plan(t, plan_id) ==
    IF t.err # "none" THEN t
    ELSE normalize_steps_in_place(t, OrderedSteps(t.db, plan_id))

\* a plausible slip: the plans are not normalized after the delete
skip_normalize(t, plan_ids) == t

RECURSIVE normalize_plans(_, _)
normalize_plans(t, plan_ids) ==
    IF plan_ids = <<>> THEN t
    ELSE normalize_plans(normalize_steps_for_plan(t, Head(plan_ids)), Tail(plan_ids))

RECURSIVE refresh_plans(_, _, _)
refresh_plans(t, session_id, plan_ids) ==
    IF plan_ids = <<>> THEN t
    ELSE refresh_plans(refresh_plan_status_with_conn(t, session_id, Head(plan_ids)),
                       session_id, Tail(plan_ids))

\* a plausible slip: the steps are not recomputed after the delete
skip_refresh_steps(t, session_id, step_ids) == t

RECURSIVE refresh_steps(_, _, _)
refresh_steps(t, session_id, step_ids) ==
    IF step_ids = <<>> THEN t
    ELSE refresh_steps(refresh_step_status_with_conn(t, session_id, Head(step_ids)),
                       session_id, Tail(step_ids))

\* a plausible slip: the step at the insertion position is not shifted
RECURSIVE shift_steps_after(_, _, _, _, _)
shift_steps_after(t, ordered, k, insert_pos, shift_by) ==
    IF k = 0 \/ t.err # "none" THEN t
    ELSE LET id == ordered[k]
             row == t.db.steps[id]
             t1 == IF row.sort_order > insert_pos
                   THEN UpdateStep(t, id, [row EXCEPT !.sort_order = @ + shift_by], "Db")
                   ELSE t
         IN shift_steps_after(t1, ordered, k - 1, insert_pos, shift_by)

\* a plausible slip: existing.iter_mut() without rev(), lowest first
RECURSIVE shift_steps_lowest_first(_, _, _, _, _)
shift_steps_lowest_first(t, ordered, k, insert_pos, shift_by) ==
    IF k = 0 \/ t.err # "none" THEN t
    ELSE LET id == ordered[Len(ordered) - k + 1]
             row == t.db.steps[id]
             t1 == IF row.sort_order >= insert_pos
                   THEN UpdateStep(t, id, [row EXCEPT !.sort_order = @ + shift_by], "Db")
                   ELSE t
         IN shift_steps_lowest_first(t1, ordered, k - 1, insert_pos, shift_by)

\* existing.iter_mut().rev(): k runs from Len(ordered) down to 1
RECURSIVE shift_steps(_, _, _, _, _)
shift_steps(t, ordered, k, insert_pos, shift_by) ==
    IF k = 0 \/ t.err # "none" THEN t
    ELSE LET id == ordered[k]
             row == t.db.steps[id]
             t1 == IF row.sort_order >= insert_pos
                   THEN UpdateStep(t, id, [row EXCEPT !.sort_order = @ + shift_by], "Db")
                   ELSE t
         IN shift_steps(t1, ordered, k - 1, insert_pos, shift_by)

RECURSIVE insert_steps(_, _, _, _, _, _, _)
insert_steps(t, plan_id, status, executor, insert_pos, idx, n) ==
    IF idx >= n \/ t.err # "none" THEN t
    ELSE LET t1 == InsertStep(t, plan_id, status, executor, insert_pos + idx)
             t2 == IF Ok(t1) THEN [t1 EXCEPT !.rows = Append(@, t1.db.seq.step)] ELSE t1
         IN insert_steps(t2, plan_id, status, executor, insert_pos, idx + 1, n)

\* a plausible slip: the goals of a new step are not inserted
insert_no_goals(t, step_id, status, n) == t

RECURSIVE insert_goals(_, _, _, _)
insert_goals(t, step_id, status, n) ==
    IF n = 0 \/ t.err # "none" THEN t
    ELSE insert_goals(InsertGoal(t, step_id, status), step_id, status, n - 1)

\* the requested position taken unclamped
NoClamp(a, b) == a

Min(a, b) == IF a < b THEN a ELSE b

\* ------------------------------------------------------------ App: plans
add_plan(db, session_id, input, fuel) ==
    LET t1 == ensure_non_empty(Begin(db, fuel), "plan title", input.title)
        t2 == IF Ok(t1) THEN ensure_non_empty(t1, "plan content", input.content) ELSE t1
    IN InsertPlan(t2, session_id)

RECURSIVE validate_step_inputs(_, _)
validate_step_inputs(t, inputs) ==
    IF inputs = <<>> \/ t.err # "none" THEN t
    ELSE LET t1 == ensure_non_empty(t, "step content", Head(inputs).content)
             t2 == ensure_all_non_empty(t1, "goal content", Head(inputs).goals)
         IN validate_step_inputs(t2, Tail(inputs))

RECURSIVE insert_tree_steps(_, _, _, _)
insert_tree_steps(t, plan_id, inputs, idx) ==
    IF idx >= Len(inputs) \/ t.err # "none" THEN t
    ELSE LET t1 == InsertStep(t, plan_id, "todo", inputs[idx + 1].executor, idx + 1)
             t2 == insert_goals(t1, t1.db.seq.step, "todo", Len(inputs[idx + 1].goals))
         IN insert_tree_steps(t2, plan_id, inputs, idx + 1)

add_plan_tree(db, session_id, input, inputs, fuel) ==
    LET t1 == ensure_non_empty(Begin(db, fuel), "plan title", input.title)
        t2 == IF Ok(t1) THEN ensure_non_empty(t1, "plan content", input.content) ELSE t1
        t3 == validate_step_inputs(t2, inputs)
        t4 == InsertPlan(t3, session_id)
    IN insert_tree_steps(t4, t4.db.seq.plan, inputs, 0)

\* a plausible slip: the owner's session is compared the wrong way round
refused_by_same_session(db, session_id, plan_id, takeover) ==
    LET existing == {r \in db.active_plan : r.plan_id = plan_id}
    IN  IF existing = {} THEN None
        ELSE LET owner == (CHOOSE r \in existing : TRUE).session_id
             IN IF owner = session_id /\ ~takeover THEN Some(owner) ELSE None

\* the session that keeps the caller from activating plan_id, if any
refused_by(db, session_id, plan_id, takeover) ==
    LET existing == {r \in db.active_plan : r.plan_id = plan_id}
    IN  IF existing = {} THEN None
        ELSE LET owner == (CHOOSE r \in existing : TRUE).session_id
             IN IF owner # session_id /\ ~takeover THEN Some(owner) ELSE None

\* Option<plan id>: the plan of the session's row (.one(); the unique index
\* on session_id leaves at most one)
get_active_plan(db, session_id) ==
    {r.plan_id : r \in {x \in db.active_plan : x.session_id = session_id}}

set_active_plan(db, session_id, plan_id, takeover, fuel) ==
    LET t == Begin(db, fuel)
        refused == refused_by(db, session_id, plan_id, takeover)
    IN  IF plan_id \notin DOMAIN db.plans
        THEN Fail(t, "NotFound", Ref("plan", <<plan_id>>, ""))
        ELSE IF IsSome(refused)
        THEN Fail(t, "InvalidInput", Ref("active", <<plan_id>>, Unwrap(refused)))
        ELSE LET t1 == DeleteActiveBySession(t, session_id)
                 t2 == DeleteActiveByPlan(t1, plan_id)
                 t3 == InsertActivePlan(t2, session_id, plan_id)
             IN touch_plan_with_conn(t3, session_id, plan_id)

clear_active_plan(db, session_id, fuel) ==
    DeleteActiveBySession(Begin(db, fuel), session_id)

update_plan_with_conn(t, session_id, id, changes) ==
    LET t1 == ensure_opt_non_empty(t, "plan title", changes.title)
        t2 == IF Ok(t1) THEN ensure_opt_non_empty(t1, "plan content", changes.content) ELSE t1
        total == Cardinality(StepsOfPlan(t.db, id))
        pending == next_step_with_conn(t.db, id)
    IN  IF ~Ok(t2) THEN t2
        ELSE IF changes.status = Some("done") /\ total > 0 /\ IsSome(pending)
        THEN Fail(t2, "InvalidInput", Ref("pending step", <<Unwrap(pending)>>, ""))
        ELSE UpdatePlan(t2, id,
                 IF id \in DOMAIN t.db.plans
                 THEN [status |-> IF IsSome(changes.status) THEN Unwrap(changes.status)
                                  ELSE t.db.plans[id].status,
                       last_session_id |-> session_id]
                 ELSE <<>>,
                 "NotFound")

update_plan_with_active_clear(db, session_id, id, changes, fuel) ==
    LET t1 == update_plan_with_conn(Begin(db, fuel), session_id, id, changes)
    IN  IF Ok(t1) /\ t1.db.plans[id].status = "done"
        THEN clear_active_plans_for_plan_with_conn(t1, session_id, id)
        ELSE t1

delete_plan(db, session_id, id, fuel) ==
    LET t1 == DeleteActiveByPlan(Begin(db, fuel), id)
        step_ids == StepsOfPlan(db, id)
        t2 == IF step_ids # {} THEN DeleteGoalsByStep(t1, step_ids) ELSE t1
        t3 == IF step_ids # {} THEN DeleteStepsByPlan(t2, id) ELSE t2
        t4 == Exec(t3, [t3.db EXCEPT !.plans = Without(@, {id})])
    IN  IF Ok(t4) /\ id \notin DOMAIN db.plans
        THEN Fail(t4, "NotFound", Ref("plan", <<id>>, ""))
        ELSE t4

\* ------------------------------------------------------------ App: steps
add_steps_batch(db, session_id, plan_id, contents, status, executor, at, fuel) ==
    LET t == Begin(db, fuel)
        tv == ensure_all_non_empty(t, "step content", contents)
        existing == OrderedSteps(db, plan_id)
        total == Len(existing)
        insert_pos == IF at = None THEN total + 1
                      ELSE IF Unwrap(at) > 0 THEN Min(Unwrap(at), total + 1)
                      ELSE 1
        shift_by == Len(contents)
        t1 == normalize_steps_in_place(tv, existing)
        t2 == shift_steps(t1, existing, total, insert_pos, shift_by)
        t3 == insert_steps(t2, plan_id, status, executor, insert_pos, 0, shift_by)
        t4 == refresh_plan_status_with_conn(t3, session_id, plan_id)
    IN  IF plan_id \notin DOMAIN db.plans
        THEN Fail(t, "NotFound", Ref("plan", <<plan_id>>, ""))
        ELSE IF contents = <<>> THEN t
        ELSE IF ~Ok(tv) THEN tv
        ELSE touch_plan_with_conn(t4, session_id, plan_id)

add_step_tree(db, session_id, plan_id, content, executor, goal_contents, fuel) ==
    LET t == Begin(db, fuel)
        t1 == ensure_non_empty(t, "step content", content)
        tv == ensure_all_non_empty(t1, "goal content", goal_contents)
        existing == OrderedSteps(db, plan_id)
        t2 == normalize_steps_in_place(tv, existing)
        t3 == InsertStep(t2, plan_id, "todo", executor, Len(existing) + 1)
        t4 == insert_goals(t3, t3.db.seq.step, "todo", Len(goal_contents))
        t5 == refresh_plan_status_with_conn(t4, session_id, plan_id)
    IN  IF ~Ok(tv) THEN tv
        ELSE IF plan_id \notin DOMAIN db.plans
        THEN Fail(tv, "NotFound", Ref("plan", <<plan_id>>, ""))
        ELSE touch_plan_with_conn(t5, session_id, plan_id)

update_step_with_conn(t, session_id, id, changes) ==
    IF t.err # "none" THEN t
    ELSE
    LET t1 == ensure_opt_non_empty(t, "step content", changes.content)
        total == Cardinality(GoalsOfStep(t.db, id))
        pending == next_goal_for_step_with_conn(t.db, id)
    IN  IF ~Ok(t1) THEN t1
        ELSE IF changes.status = Some("done") /\ total > 0 /\ IsSome(pending)
        THEN Fail(t1, "InvalidInput", Ref("pending goal", <<Unwrap(pending)>>, ""))
        ELSE
        LET t2 == UpdateStep(t1, id,
                      IF id \in DOMAIN t.db.steps
                      THEN [t.db.steps[id] EXCEPT
                               !.status = IF IsSome(changes.status)
                                          THEN Unwrap(changes.status) ELSE @,
                               !.executor = IF IsSome(changes.executor)
                                            THEN Unwrap(changes.executor) ELSE @]
                      ELSE <<>>,
                      "NotFound")
        IN  IF ~Ok(t2) THEN t2
            ELSE LET plan_id == t2.db.steps[id].plan_id
                     t3 == IF IsSome(changes.status)
                           THEN refresh_plan_status_with_conn(t2, session_id, plan_id)
                           ELSE t2
                 IN touch_plan_with_conn(t3, session_id, plan_id)

update_step(db, session_id, id, changes, fuel) ==
    update_step_with_conn(Begin(db, fuel), session_id, id, changes)

RECURSIVE set_goal_rows(_, _, _)
set_goal_rows(t, ids, status) ==
    IF ids = <<>> \/ t.err # "none" THEN t
    ELSE set_goal_rows(
             UpdateGoal(t, Head(ids), [t.db.goals[Head(ids)] EXCEPT !.status = status], "Db"),
             Tail(ids), status)

\* ids of the steps' plans, first seen, the steps read in id order
PlanIdsOfSteps(db, step_ids) ==
    FirstSeen([i \in DOMAIN db.steps |-> db.steps[i].plan_id],
              AscSeq(Range(step_ids) \cap DOMAIN db.steps))

set_goals_status_with_conn(t, session_id, ids, status) ==
    IF t.err # "none" \/ ids = <<>> THEN t
    ELSE
    LET unique == unique_ids(ids)
        missing == SelectSeq(unique, LAMBDA g : g \notin DOMAIN t.db.goals)
        found == AscSeq(Range(unique))
        step_ids == FirstSeen([g \in DOMAIN t.db.goals |-> t.db.goals[g].step_id], found)
        t1 == set_goal_rows(t, found, status)
        t2 == refresh_steps(t1, session_id, step_ids)
    IN  IF missing # <<>>
        THEN Fail(t, "NotFound", Ref("goal", missing, ""))
        ELSE IF ~Ok(t2) THEN t2
        ELSE touch_plans_with_conn(t2, session_id, PlanIdsOfSteps(t2.db, step_ids))

\* a plausible slip: the goals of the step are left as they are
leave_goals_of_step(t, session_id, step_id) == t

set_all_goals_done_for_step_with_conn(t, session_id, step_id) ==
    IF t.err # "none" THEN t
    ELSE IF step_id \notin DOMAIN t.db.steps
    THEN Fail(t, "NotFound", Ref("step", <<step_id>>, ""))
    ELSE LET ids == AscSeq(GoalsOfStep(t.db, step_id))
         IN IF ids = <<>> THEN t
            ELSE set_goals_status_with_conn(t, session_id, ids, "done")

set_step_done_with_goals(db, session_id, id, all_goals, fuel) ==
    LET t == Begin(db, fuel)
        t1 == IF all_goals
              THEN set_all_goals_done_for_step_with_conn(t, session_id, id)
              ELSE t
    IN update_step_with_conn(t1, session_id, id,
                             [content |-> None, status |-> Some("done"), executor |-> None,
                              comment |-> None])

delete_steps(db, session_id, ids, fuel) ==
    LET t == Begin(db, fuel)
        unique == unique_ids(ids)
        missing == SelectSeq(unique, LAMBDA i : i \notin DOMAIN db.steps)
        plan_ids == PlanIdsOfSteps(db, unique)
        t1 == DeleteGoalsByStep(t, Range(unique))
        t2 == [DeleteStepsById(t1, Range(unique)) EXCEPT
                  !.count = Cardinality(Range(unique) \cap DOMAIN t1.db.steps)]
        t3 == normalize_plans(t2, plan_ids)
        t4 == refresh_plans(t3, session_id, plan_ids)
    IN  IF ids = <<>> THEN t
        ELSE IF missing # <<>>
        THEN Fail(t, "NotFound", Ref("step", missing, ""))
        ELSE touch_plans_with_conn(t4, session_id, plan_ids)

\* Vec::remove(index) and Vec::insert(index, x), 0-based
RemoveAt(s, i) == SubSeq(s, 1, i) \o SubSeq(s, i + 2, Len(s))

\* a plausible slip: the step is put back one place too far
InsertAfter(s, i, x) == SubSeq(s, 1, i + 1) \o <<x>> \o SubSeq(s, i + 2, Len(s))

InsertAt(s, i, x) == SubSeq(s, 1, i) \o <<x>> \o SubSeq(s, i + 1, Len(s))

IndexOf(s, x) == (CHOOSE k \in 1..Len(s) : s[k] = x) - 1

move_step(db, session_id, id, to, fuel) ==
    LET t == Begin(db, fuel) IN
    IF id \notin DOMAIN db.steps
    THEN Fail(t, "NotFound", Ref("step", <<id>>, ""))
    ELSE
    LET ordered == OrderedSteps(db, db.steps[id].plan_id)
        current_index == IndexOf(ordered, id)
        wanted == IF to = 0 THEN 0 ELSE to - 1
        desired_index == IF wanted >= Len(ordered)
                         THEN (IF Len(ordered) = 0 THEN 0 ELSE Len(ordered) - 1)
                         ELSE wanted
        removed == RemoveAt(ordered, current_index)
        moved == IF desired_index >= Len(removed)
                 THEN Append(removed, id)
                 ELSE InsertAt(removed, desired_index, id)
    IN [normalize_from(t, moved, 0) EXCEPT !.rows = moved]

\* ------------------------------------------------------------ App: goals
add_goals_batch(db, session_id, step_id, contents, status, fuel) ==
    LET t == Begin(db, fuel)
        tv == ensure_all_non_empty(t, "goal content", contents)
        t1 == insert_goals(tv, step_id, status, Len(contents))
        t2 == refresh_step_status_with_conn(t1, session_id, step_id)
    IN  IF contents = <<>> THEN t
        ELSE IF ~Ok(tv) THEN tv
        ELSE IF step_id \notin DOMAIN db.steps
        THEN Fail(tv, "NotFound", Ref("step", <<step_id>>, ""))
        ELSE touch_plan_with_conn(t2, session_id, db.steps[step_id].plan_id)

update_goal_with_conn(t, session_id, id, changes) ==
    LET t1 == ensure_opt_non_empty(t, "goal content", changes.content)
        t2 == UpdateGoal(t1, id,
                  IF id \in DOMAIN t.db.goals
                  THEN [t.db.goals[id] EXCEPT
                           !.status = IF IsSome(changes.status)
                                      THEN Unwrap(changes.status) ELSE @]
                  ELSE <<>>,
                  "NotFound")
    IN  IF ~Ok(t2) THEN t2
        ELSE LET step_id == t2.db.goals[id].step_id
                 t3 == refresh_step_status_with_conn(t2, session_id, step_id)
             IN IF Ok(t3) /\ step_id \in DOMAIN t3.db.steps
                THEN touch_plan_with_conn(t3, session_id, t3.db.steps[step_id].plan_id)
                ELSE t3

update_goal(db, session_id, id, changes, fuel) ==
    update_goal_with_conn(Begin(db, fuel), session_id, id, changes)

set_goal_status(db, session_id, id, status, fuel) ==
    update_goal(db, session_id, id,
                [content |-> None, status |-> Some(status), comment |-> None], fuel)

set_goals_status(db, session_id, ids, status, fuel) ==
    set_goals_status_with_conn(Begin(db, fuel), session_id, ids, status)

delete_goals(db, session_id, ids, fuel) ==
    LET t == Begin(db, fuel)
        unique == unique_ids(ids)
        missing == SelectSeq(unique, LAMBDA g : g \notin DOMAIN db.goals)
        step_ids == FirstSeen([g \in DOMAIN db.goals |-> db.goals[g].step_id],
                              AscSeq(Range(unique)))
        t1 == [DeleteGoalsById(t, Range(unique)) EXCEPT
                  !.count = Cardinality(Range(unique) \cap DOMAIN t.db.goals)]
        t2 == refresh_steps(t1, session_id, step_ids)
    IN  IF ids = <<>> THEN t
        ELSE IF missing # <<>>
        THEN Fail(t, "NotFound", Ref("goal", missing, ""))
        ELSE IF ~Ok(t2) THEN t2
        ELSE touch_plans_with_conn(t2, session_id, PlanIdsOfSteps(t2.db, step_ids))

\* --------------------------------------------------------- App: comments
\* entries: sequence of <<id, comment>>
\* a plausible slip: a repeated id keeps its first comment
RECURSIVE keep_first_comment(_)
keep_first_comment(entries) ==
    IF entries = <<>> THEN <<>>
    ELSE LET ordered == keep_first_comment(SubSeq(entries, 1, Len(entries) - 1))
             e == entries[Len(entries)]
         IN IF \E k \in 1..Len(ordered) : ordered[k][1] = e[1]
            THEN ordered
            ELSE Append(ordered, e)

RECURSIVE normalize_comment_entries(_)
normalize_comment_entries(entries) ==
    IF entries = <<>> THEN <<>>
    ELSE LET ordered == normalize_comment_entries(SubSeq(entries, 1, Len(entries) - 1))
             e == entries[Len(entries)]
         IN IF \E k \in 1..Len(ordered) : ordered[k][1] = e[1]
            THEN [k \in 1..Len(ordered) |->
                     IF ordered[k][1] = e[1] THEN <<e[1], e[2]>> ELSE ordered[k]]
            ELSE Append(ordered, e)

EntryIds(entries) == [k \in 1..Len(entries) |-> entries[k][1]]

\* one comment UPDATE that went through
Wrote(t, e) == IF Ok(t) THEN [t EXCEPT !.written = Append(@, e)] ELSE t

RECURSIVE comment_plan_rows(_, _, _)
comment_plan_rows(t, session_id, entries) ==
    IF entries = <<>> \/ t.err # "none" THEN t
    ELSE LET e == Head(entries)
             t1 == UpdatePlan(t, e[1],
                              [t.db.plans[e[1]] EXCEPT !.last_session_id = session_id], "Db")
         IN comment_plan_rows(Wrote(t1, e), session_id, Tail(entries))

RECURSIVE comment_step_rows(_, _)
comment_step_rows(t, entries) ==
    IF entries = <<>> \/ t.err # "none" THEN t
    ELSE LET e == Head(entries)
         IN comment_step_rows(Wrote(UpdateStep(t, e[1], t.db.steps[e[1]], "Db"), e),
                              Tail(entries))

RECURSIVE comment_goal_rows(_, _)
comment_goal_rows(t, entries) ==
    IF entries = <<>> \/ t.err # "none" THEN t
    ELSE LET e == Head(entries)
         IN comment_goal_rows(Wrote(UpdateGoal(t, e[1], t.db.goals[e[1]], "Db"), e),
                              Tail(entries))

\* a plausible slip: the missing ids are skipped and the rest is written
comment_plans_skipping_missing(db, session_id, entries, fuel) ==
    LET ordered == normalize_comment_entries(entries)
        found == SelectSeq(ordered, LAMBDA e : e[1] \in DOMAIN db.plans)
    IN  [comment_plan_rows(Begin(db, fuel), session_id, found)
            EXCEPT !.rows = EntryIds(found)]

comment_plans(db, session_id, entries, fuel) ==
    LET t == Begin(db, fuel)
        ordered == normalize_comment_entries(entries)
        ids == EntryIds(ordered)
        missing == SelectSeq(ids, LAMBDA p : p \notin DOMAIN db.plans)
    IN  IF ids = <<>> THEN t
        ELSE IF missing # <<>> THEN Fail(t, "NotFound", Ref("plan", missing, ""))
        ELSE [comment_plan_rows(t, session_id, ordered) EXCEPT !.rows = ids]

comment_steps(db, session_id, entries, fuel) ==
    LET t == Begin(db, fuel)
        ordered == normalize_comment_entries(entries)
        ids == EntryIds(ordered)
        missing == SelectSeq(ids, LAMBDA i : i \notin DOMAIN db.steps)
        plan_ids == PlanIdsOfSteps(db, ids)
    IN  IF ids = <<>> THEN t
        ELSE IF missing # <<>> THEN Fail(t, "NotFound", Ref("step", missing, ""))
        ELSE [touch_plans_with_conn(comment_step_rows(t, ordered), session_id, plan_ids)
                 EXCEPT !.rows = plan_ids]

comment_goals(db, session_id, entries, fuel) ==
    LET t == Begin(db, fuel)
        ordered == normalize_comment_entries(entries)
        ids == EntryIds(ordered)
        missing == SelectSeq(ids, LAMBDA g : g \notin DOMAIN db.goals)
        step_ids == FirstSeen([g \in DOMAIN db.goals |-> db.goals[g].step_id],
                              AscSeq(Range(ids)))
        plan_ids == PlanIdsOfSteps(db, step_ids)
    IN  IF ids = <<>> THEN t
        ELSE IF missing # <<>> THEN Fail(t, "NotFound", Ref("goal", missing, ""))
        ELSE [touch_plans_with_conn(comment_goal_rows(t, ordered), session_id, plan_ids)
                 EXCEPT !.rows = plan_ids]

\* ------------------------------------------------------------------ inputs
\* ids a caller may name: every id the store can have handed out
PlanIds(cap) == 1..cap.plans
StepIds(cap) == 1..cap.steps
GoalIds(cap) == 1..cap.goals

PlanInputs == {[title |-> Word, content |-> Word],
               [title |-> Blank, content |-> Word],
               [title |-> Word, content |-> Blank]}

Batches == SeqsUpTo(Texts, MaxBatch)

AllWords(contents) == \A k \in 1..Len(contents) : contents[k] = Word

Positions(cap) == 0..(cap.steps + 1)

\* a batch that is rejected or empty is tried once, a batch that is
\* accepted with every status and position
AddStepsInputs(cap) ==
    {x \in [contents : Batches, status : StepStatus, executor : cap.executors,
            at : Opt(Positions(cap))] :
        (x.contents = <<>> \/ ~AllWords(x.contents)) => (x.status = "todo" /\ x.at = None)}

AddGoalsInputs ==
    {x \in [contents : Batches, status : GoalStatus] :
        (x.contents = <<>> \/ ~AllWords(x.contents)) => x.status = "todo"}

StepInputs(cap) == [content : Texts, executor : cap.executors, goals : SeqsUpTo(Texts, 1)]

TreeInputs(cap) == SeqsUpTo(StepInputs(cap), MaxBatch)

\* partial updates: a blank text field alone, a comment (blank or not)
\* alone, or any status with or without a valid text field
PlanChangesInputs ==
    {x \in [title : Opt(Texts), content : Opt({Blank}), status : Opt(PlanStatus),
            comment : Opt(Texts)] :
        /\ (x.title = Some(Blank) \/ x.content = Some(Blank))
              => (x.status = None /\ (x.title = None \/ x.content = None))
        /\ x.comment # None => (x.title = None /\ x.content = None /\ x.status = None)}

StepChangesInputs(cap) ==
    {x \in [content : Opt(Texts), status : Opt(StepStatus), executor : Opt(cap.executors),
            comment : Opt(Texts)] :
        /\ x.content = Some(Blank) => x.status = None
        /\ x.comment # None => (x.content = None /\ x.status = None)
        /\ x.executor # None => (x.content = None /\ x.comment = None)}

GoalChangesInputs ==
    {x \in [content : Opt(Texts), status : Opt(GoalStatus), comment : Opt(Texts)] :
        /\ x.content = Some(Blank) => x.status = None
        /\ x.comment # None => (x.content = None /\ x.status = None)}

IdLists(ids) == SeqsUpTo(ids, MaxBatch)

Entries(ids) == SeqsUpTo({<<i, w>> : i \in ids, w \in Texts}, MaxBatch)

RECURSIVE SumGoals(_, _)
SumGoals(inputs, k) == IF k = 0 THEN 0 ELSE Len(inputs[k].goals) + SumGoals(inputs, k - 1)

\* ------------------------------------------------------------------- calls
\* One call of an App operation against the store db: who called, with
\* what, what came back (err, ref, log, flag) and the store afterwards.
\* txn: the call runs in a transaction; otherwise on the bare connection.
\* dirty: the call had written to the store by the time it returned.
Call(op, session_id, id, arg, db, t, txn) ==
    [op |-> op, session |-> session_id, id |-> id, arg |-> arg,
     err |-> t.err, ref |-> t.ref,
     log |-> IF Ok(t) THEN t.log ELSE StatusChangesDefault,
     flag |-> Ok(t) /\ t.flag,
     count |-> IF Ok(t) THEN t.count ELSE 0,
     rows |-> IF Ok(t) THEN t.rows ELSE <<>>,
     written |-> IF Ok(t) THEN t.written ELSE <<>>,
     dirty |-> t.db # db,
     db |-> IF txn THEN finalize_transaction(db, t) ELSE autocommit(db, t)]

AddPlanCalls(db, F, cap) ==
    {Call("add_plan", s, 0, input, db, add_plan(db, s, input, f), FALSE) :
        s \in Sessions, input \in {y \in PlanInputs : db.seq.plan < cap.plans}, f \in F}

AddPlanTreeCalls(db, F, cap) ==
    {Call("add_plan_tree", s, 0, x, db, add_plan_tree(db, s, x.input, x.steps, f), TRUE) :
        s \in Sessions, f \in F,
        x \in {y \in [input : PlanInputs, steps : TreeInputs(cap)] :
                  /\ db.seq.plan < cap.plans
                  /\ db.seq.step + Len(y.steps) <= cap.steps
                  /\ db.seq.goal + SumGoals(y.steps, Len(y.steps)) <= cap.goals}}

SetActivePlanCalls(db, F, cap) ==
    {Call("set_active_plan", s, p, takeover, db, set_active_plan(db, s, p, takeover, f), TRUE) :
        s \in Sessions, p \in PlanIds(cap), takeover \in BOOLEAN, f \in F}

ClearActivePlanCalls(db, F, cap) ==
    {Call("clear_active_plan", s, 0, FALSE, db, clear_active_plan(db, s, f), FALSE) :
        s \in Sessions, f \in F}

UpdatePlanCalls(db, F, cap) ==
    {Call("update_plan", s, p, changes, db,
          update_plan_with_active_clear(db, s, p, changes, f), TRUE) :
        s \in Sessions, p \in PlanIds(cap), changes \in PlanChangesInputs, f \in F}

DeletePlanCalls(db, F, cap) ==
    {Call("delete_plan", s, p, FALSE, db, delete_plan(db, s, p, f), TRUE) :
        s \in Sessions, p \in PlanIds(cap), f \in F}

AddStepsBatchCalls(db, F, cap) ==
    {Call("add_steps_batch", s, p, x, db,
          add_steps_batch(db, s, p, x.contents, x.status, x.executor, x.at, f), TRUE) :
        s \in Sessions, p \in PlanIds(cap), f \in F,
        x \in {y \in AddStepsInputs(cap) : db.seq.step + Len(y.contents) <= cap.steps}}

AddStepTreeCalls(db, F, cap) ==
    {Call("add_step_tree", s, p, x, db, add_step_tree(db, s, p, x.content, x.executor, x.goals, f), TRUE) :
        s \in Sessions, p \in PlanIds(cap), f \in F,
        x \in {y \in StepInputs(cap) : /\ db.seq.step < cap.steps
                                  /\ db.seq.goal + Len(y.goals) <= cap.goals}}

UpdateStepCalls(db, F, cap) ==
    {Call("update_step", s, i, changes, db, update_step(db, s, i, changes, f), TRUE) :
        s \in Sessions, i \in StepIds(cap), changes \in StepChangesInputs(cap), f \in F}

SetStepDoneWithGoalsCalls(db, F, cap) ==
    {Call("set_step_done_with_goals", s, i, all_goals, db,
          set_step_done_with_goals(db, s, i, all_goals, f), TRUE) :
        s \in Sessions, i \in StepIds(cap), all_goals \in BOOLEAN, f \in F}

DeleteStepsCalls(db, F, cap) ==
    {Call("delete_steps", s, 0, ids, db, delete_steps(db, s, ids, f), TRUE) :
        s \in Sessions, ids \in IdLists(StepIds(cap)), f \in F}

MoveStepCalls(db, F, cap) ==
    {Call("move_step", s, i, to, db, move_step(db, s, i, to, f), TRUE) :
        s \in Sessions, i \in StepIds(cap), to \in Positions(cap), f \in F}

AddGoalsBatchCalls(db, F, cap) ==
    {Call("add_goals_batch", s, i, x, db,
          add_goals_batch(db, s, i, x.contents, x.status, f), TRUE) :
        s \in Sessions, i \in StepIds(cap), f \in F,
        x \in {y \in AddGoalsInputs : db.seq.goal + Len(y.contents) <= cap.goals}}

UpdateGoalCalls(db, F, cap) ==
    {Call("update_goal", s, g, changes, db, update_goal(db, s, g, changes, f), TRUE) :
        s \in Sessions, g \in GoalIds(cap), changes \in GoalChangesInputs, f \in F}

SetGoalsStatusCalls(db, F, cap) ==
    {Call("set_goals_status", s, 0, x, db, set_goals_status(db, s, x.ids, x.status, f), TRUE) :
        s \in Sessions, x \in [ids : IdLists(GoalIds(cap)), status : GoalStatus], f \in F}

DeleteGoalsCalls(db, F, cap) ==
    {Call("delete_goals", s, 0, ids, db, delete_goals(db, s, ids, f), TRUE) :
        s \in Sessions, ids \in IdLists(GoalIds(cap)), f \in F}

CommentPlansCalls(db, F, cap) ==
    {Call("comment_plans", s, 0, entries, db, comment_plans(db, s, entries, f), TRUE) :
        s \in Sessions, entries \in Entries(PlanIds(cap)), f \in F}

CommentStepsCalls(db, F, cap) ==
    {Call("comment_steps", s, 0, entries, db, comment_steps(db, s, entries, f), TRUE) :
        s \in Sessions, entries \in Entries(StepIds(cap)), f \in F}

CommentGoalsCalls(db, F, cap) ==
    {Call("comment_goals", s, 0, entries, db, comment_goals(db, s, entries, f), TRUE) :
        s \in Sessions, entries \in Entries(GoalIds(cap)), f \in F}

AllCalls(db, F, cap) ==
    AddPlanCalls(db, F, cap) \cup AddPlanTreeCalls(db, F, cap)
        \cup SetActivePlanCalls(db, F, cap) \cup ClearActivePlanCalls(db, F, cap)
        \cup UpdatePlanCalls(db, F, cap) \cup DeletePlanCalls(db, F, cap)
        \cup AddStepsBatchCalls(db, F, cap) \cup AddStepTreeCalls(db, F, cap)
        \cup UpdateStepCalls(db, F, cap) \cup SetStepDoneWithGoalsCalls(db, F, cap)
        \cup DeleteStepsCalls(db, F, cap) \cup MoveStepCalls(db, F, cap)
        \cup AddGoalsBatchCalls(db, F, cap) \cup UpdateGoalCalls(db, F, cap)
        \cup SetGoalsStatusCalls(db, F, cap) \cup DeleteGoalsCalls(db, F, cap)
        \cup CommentPlansCalls(db, F, cap) \cup CommentStepsCalls(db, F, cap)
        \cup CommentGoalsCalls(db, F, cap)

\* ----------------------------------------------------------------- actions
Write(db) ==
    /\ plans' = db.plans
    /\ steps' = db.steps
    /\ goals' = db.goals
    /\ active_plan' = db.active_plan
    /\ seq' = db.seq

\* one command from start to end, with no other invocation under way
Commit(db) == Write(db) /\ UNCHANGED invocation

Init ==
    /\ plans = EmptyStore.plans
    /\ steps = EmptyStore.steps
    /\ goals = EmptyStore.goals
    /\ active_plan = EmptyStore.active_plan
    /\ seq = EmptyStore.seq
    /\ guard = None
    /\ pc = [p \in Procs |-> "start"]
    /\ seen = [p \in Procs |-> EmptyStore]

\* The store refuses no statement in the behaviours explored; what a call
\* does when the store refuses one is stated over the calls themselves.
AddPlan(cap) == \E c \in AddPlanCalls(Store, NoFault, cap) : Commit(c.db)

AddPlanTree(cap) == \E c \in AddPlanTreeCalls(Store, NoFault, cap) : Commit(c.db)

SetActivePlan(cap) == \E c \in SetActivePlanCalls(Store, NoFault, cap) : Commit(c.db)

ClearActivePlan(cap) == \E c \in ClearActivePlanCalls(Store, NoFault, cap) : Commit(c.db)

UpdatePlanWithActiveClear(cap) == \E c \in UpdatePlanCalls(Store, NoFault, cap) : Commit(c.db)

DeletePlan(cap) == \E c \in DeletePlanCalls(Store, NoFault, cap) : Commit(c.db)

AddStepsBatch(cap) == \E c \in AddStepsBatchCalls(Store, NoFault, cap) : Commit(c.db)

AddStepTree(cap) == \E c \in AddStepTreeCalls(Store, NoFault, cap) : Commit(c.db)

UpdateStepStatus(cap) == \E c \in UpdateStepCalls(Store, NoFault, cap) : Commit(c.db)

SetStepDoneWithGoals(cap) == \E c \in SetStepDoneWithGoalsCalls(Store, NoFault, cap) : Commit(c.db)

DeleteSteps(cap) == \E c \in DeleteStepsCalls(Store, NoFault, cap) : Commit(c.db)

MoveStep(cap) == \E c \in MoveStepCalls(Store, NoFault, cap) : Commit(c.db)

AddGoalsBatch(cap) == \E c \in AddGoalsBatchCalls(Store, NoFault, cap) : Commit(c.db)

UpdateGoalStatus(cap) == \E c \in UpdateGoalCalls(Store, NoFault, cap) : Commit(c.db)

SetGoalsStatus(cap) == \E c \in SetGoalsStatusCalls(Store, NoFault, cap) : Commit(c.db)

DeleteGoals(cap) == \E c \in DeleteGoalsCalls(Store, NoFault, cap) : Commit(c.db)

CommentPlans(cap) == \E c \in CommentPlansCalls(Store, NoFault, cap) : Commit(c.db)

CommentSteps(cap) == \E c \in CommentStepsCalls(Store, NoFault, cap) : Commit(c.db)

CommentGoals(cap) == \E c \in CommentGoalsCalls(Store, NoFault, cap) : Commit(c.db)

Step(cap) ==
    \/ AddPlan(cap)
    \/ AddPlanTree(cap)
    \/ SetActivePlan(cap)
    \/ ClearActivePlan(cap)
    \/ UpdatePlanWithActiveClear(cap)
    \/ DeletePlan(cap)
    \/ AddStepsBatch(cap)
    \/ AddStepTree(cap)
    \/ UpdateStepStatus(cap)
    \/ SetStepDoneWithGoals(cap)
    \/ DeleteSteps(cap)
    \/ MoveStep(cap)
    \/ AddGoalsBatch(cap)
    \/ UpdateGoalStatus(cap)
    \/ SetGoalsStatus(cap)
    \/ DeleteGoals(cap)
    \/ CommentPlans(cap)
    \/ CommentSteps(cap)
    \/ CommentGoals(cap)

Next == Step(Caps)

Spec == Init /\ [][Next]_vars

NextRegistry == Step(RegCaps)

SpecRegistry == Init /\ [][NextRegistry]_vars

NextOrder == Step(OrdCaps)

SpecOrder == Init /\ [][NextOrder]_vars

\* ------------------------------------- normalize on arbitrary orderings
\* normalize_steps_for_plan as a function of the step rows it finds: plan 1
\* with up to OrdSteps steps holding any sort_order in 0..MaxOrder (gaps
\* and ties included), as a caller may hand them to it
InitNormalize ==
    /\ plans = (1 :> [status |-> "todo", last_session_id |-> "s1"])
    /\ steps \in UNION {[1..n -> [plan_id : {1}, status : {"todo"}, executor : OnlyAi,
                                    sort_order : 0..MaxOrder]] : n \in 0..OrdSteps}
    /\ goals = EmptyFn
    /\ active_plan = {}
    /\ seq = [plan |-> 1, step |-> Cardinality(DOMAIN steps), goal |-> 0]
    /\ guard = None
    /\ pc = [p \in Procs |-> "start"]
    /\ seen = [p \in Procs |-> EmptyStore]

Normalize ==
    Commit(autocommit(Store, normalize_steps_for_plan(Begin(Store, 0), 1)))

SpecNormalize == InitNormalize /\ [][Normalize]_vars

\* ------------------------------------------------ run(): the file lock
\* a plausible slip: the lock file is opened but never locked
LockNotTaken == TRUE

\* lock.write() blocks until no other invocation holds the guard
LockFree == guard = None

\* let mut lock = db::open_lock(&db_path)?; let _guard = lock.write()?;
Acquire(p) ==
    /\ pc[p] = "start"
    /\ LockFree
    /\ guard' = Some(p)
    /\ pc' = [pc EXCEPT ![p] = "locked"]
    /\ UNCHANGED <<plans, steps, goals, active_plan, seq, seen>>

\* db::connect and ensure_schema, then the command's reads
Connect(p) ==
    /\ pc[p] = "locked"
    /\ pc' = [pc EXCEPT ![p] = "connected"]
    /\ seen' = [seen EXCEPT ![p] = Store]
    /\ UNCHANGED <<plans, steps, goals, active_plan, seq, guard>>

\* db::connect(&db_path).await? returns the error: the command is not run
ConnectFails(p) ==
    /\ pc[p] = "locked"
    /\ pc' = [pc EXCEPT ![p] = "end"]
    /\ UNCHANGED <<plans, steps, goals, active_plan, seq, guard, seen>>

\* the command's App call, computed from what the command read, writes the
\* store; an Err leaves run() by ?, Ok goes on to sync_plan_md
Command(p) ==
    /\ pc[p] = "connected"
    /\ \E c \in AllCalls(seen[p], NoFault, Caps) :
          /\ Write(IF c.err = "none" THEN c.db ELSE Store)
          /\ pc' = [pc EXCEPT ![p] = IF c.err = "none" THEN "sync" ELSE "end"]
    /\ seen' = [seen EXCEPT ![p] = EmptyStore]
    /\ UNCHANGED guard

\* sync_plan_md reads the plans back and writes the markdown files
SyncPlanMd(p) ==
    /\ pc[p] = "sync"
    /\ pc' = [pc EXCEPT ![p] = "end"]
    /\ UNCHANGED <<plans, steps, goals, active_plan, seq, guard, seen>>

\* _guard is dropped where its block ends or where ? returns; the process
\* exits and the binary may be invoked again
Release(p) ==
    /\ pc[p] = "end"
    /\ guard' = IF guard = Some(p) THEN None ELSE guard
    /\ pc' = [pc EXCEPT ![p] = "start"]
    /\ UNCHANGED <<plans, steps, goals, active_plan, seq, seen>>

NextLock ==
    \E p \in Procs :
        \/ Acquire(p)
        \/ Connect(p)
        \/ ConnectFails(p)
        \/ Command(p)
        \/ SyncPlanMd(p)
        \/ Release(p)

SpecLock == Init /\ [][NextLock]_vars

\* ================================================================ claims
AllDone(rows, ids) == \A i \in ids : rows[i].status = "done"

\* C1: in every committed state, every plan that has at least one step is
\* done if and only if every one of its steps is done.
PlanDoneIffAllStepsDone ==
    \A p \in DOMAIN plans :
        StepsOfPlan(Store, p) # {} =>
            (plans[p].status = "done" <=> AllDone(steps, StepsOfPlan(Store, p)))

\* C2: in every committed state, every step that has at least one goal is
\* done if and only if every one of its goals is done.
StepDoneIffAllGoalsDone ==
    \A i \in DOMAIN steps :
        GoalsOfStep(Store, i) # {} =>
            (steps[i].status = "done" <=> AllDone(goals, GoalsOfStep(Store, i)))

\* C3: in every committed state, the sort_order values of the steps of every
\* plan are exactly 1..N, N being the number of its steps, none twice.
SortOrders(p) == {steps[i].sort_order : i \in StepsOfPlan(Store, p)}

DenseSortOrder ==
    \A p \in DOMAIN plans :
        /\ SortOrders(p) = 1..Cardinality(StepsOfPlan(Store, p))
        /\ \A i, j \in StepsOfPlan(Store, p) :
               steps[i].sort_order = steps[j].sort_order => i = j

\* a later step stands before an earlier one: a step was inserted at a
\* position or moved, and the plan is still numbered 1..N
DenseSortOrderWitness ==
    \E p \in DOMAIN plans : \E i, j \in StepsOfPlan(Store, p) :
        /\ i < j
        /\ steps[j].sort_order = 1
        /\ steps[i].sort_order = 2

\* C4: in every committed state there is at most one active_plan row for
\* each session and at most one for each plan.
NoDuplicateBinding ==
    \A r1, r2 \in active_plan :
        (r1.session_id = r2.session_id \/ r1.plan_id = r2.plan_id) => r1 = r2

\* a session holding one plan takes over another plan that another session
\* holds: both earlier rows are gone and one row is left
NoDuplicateBindingWitness ==
    \E c \in SetActivePlanCalls(Store, NoFault, RegCaps) :
        /\ c.err = "none"
        /\ c.arg
        /\ \E r \in active_plan : r.session_id = c.session /\ r.plan_id # c.id
        /\ \E r \in active_plan : r.session_id # c.session /\ r.plan_id = c.id
        /\ c.db.active_plan = {[session_id |-> c.session, plan_id |-> c.id]}

\* C5: whenever an operation turns a plan from todo to done, no active_plan
\* row refers to that plan once the operation has committed.
BecameDone(p) == p \in DOMAIN plans /\ plans[p].status = "todo" /\ plans'[p].status = "done"

DoneClearsEveryBinding ==
    [][\A p \in DOMAIN plans' :
          BecameDone(p) => \A r \in active_plan' : r.plan_id # p]_vars

\* a session completes the last goal of a plan that another session holds
DoneClearsEveryBindingWitness ==
    \E c \in UpdateGoalCalls(Store, NoFault, Caps) : \E p \in DOMAIN plans :
        /\ c.err = "none"
        /\ plans[p].status = "todo"
        /\ c.db.plans[p].status = "done"
        /\ \E r \in active_plan : r.plan_id = p /\ r.session_id # c.session
        /\ \A r \in c.db.active_plan : r.plan_id # p

\* C6: a call of any App operation that returns an error, be it NotFound,
\* InvalidInput or the store refusing one of its statements, leaves the
\* store exactly as it was before the call.
FailedCallChangesNothing ==
    \A c \in AllCalls(Store, Faults, Caps) : c.err # "none" => c.db = Store

\* the store refuses a later statement of delete_plan, after the plan's
\* binding, goals or steps were already deleted in the transaction
FailedCallChangesNothingWitness ==
    \E c \in DeletePlanCalls(Store, Faults, Caps) :
        /\ c.err = "Db"
        /\ c.dirty
        /\ StepsOfPlan(Store, c.id) # {}
        /\ c.db = Store

TodoSteps(p) == {i \in StepsOfPlan(Store, p) : steps[i].status = "todo"}

TodoGoals(i) == {g \in GoalsOfStep(Store, i) : goals[g].status = "todo"}

\* the first of a plan's todo steps by (sort_order, id)
FirstTodoStep(p) ==
    CHOOSE i \in TodoSteps(p) : \A j \in TodoSteps(p) :
        \/ steps[i].sort_order < steps[j].sort_order
        \/ steps[i].sort_order = steps[j].sort_order /\ i <= j

\* C7: an update that sets an existing plan done while it has a todo step
\* fails with InvalidInput naming the first todo step by (sort_order, id)
\* and changes nothing; with no todo step, zero steps included, it succeeds
\* and the plan is done.
PlanDoneGuard ==
    \A c \in UpdatePlanCalls(Store, NoFault, Caps) :
        (c.id \in DOMAIN plans /\ c.arg.status = Some("done")) =>
            IF TodoSteps(c.id) # {}
            THEN /\ c.err = "InvalidInput"
                 /\ c.ref = Ref("pending step", <<FirstTodoStep(c.id)>>, "")
                 /\ c.db = Store
            ELSE /\ c.err = "none"
                 /\ c.db.plans[c.id].status = "done"

\* two todo steps, the younger one first in order: the refusal names it
PlanDoneGuardWitness ==
    \E c \in UpdatePlanCalls(Store, NoFault, Caps) :
        /\ c.arg.status = Some("done")
        /\ c.err = "InvalidInput"
        /\ \E i, j \in TodoSteps(c.id) :
               i < j /\ steps[j].sort_order < steps[i].sort_order /\ c.ref.ids = <<j>>

\* C8: an update_step that sets an existing step done while it has a todo
\* goal fails with InvalidInput naming the todo goal with the smallest id
\* and changes nothing; with no todo goal, zero goals included, it succeeds
\* and the step is done.
StepDoneGuard ==
    \A c \in UpdateStepCalls(Store, NoFault, Caps) :
        (c.id \in DOMAIN steps /\ c.arg.status = Some("done")) =>
            IF TodoGoals(c.id) # {}
            THEN /\ c.err = "InvalidInput"
                 /\ c.ref.what = "pending goal"
                 /\ \E g \in TodoGoals(c.id) :
                        c.ref.ids = <<g>> /\ \A h \in TodoGoals(c.id) : g <= h
                 /\ c.db = Store
            ELSE /\ c.err = "none"
                 /\ c.db.steps[c.id].status = "done"

\* a step with two todo goals: the refusal names the older one
StepDoneGuardWitness ==
    \E c \in UpdateStepCalls(Store, NoFault, Caps) :
        /\ c.arg.status = Some("done")
        /\ c.err = "InvalidInput"
        /\ Cardinality(TodoGoals(c.id)) = 2
        /\ \E g, h \in TodoGoals(c.id) : g < h /\ c.ref.ids = <<g>>

\* the calls that set the one goal g done
SetGoalDoneCalls(g) ==
    {c \in UpdateGoalCalls(Store, NoFault, Caps) : c.id = g /\ c.arg.status = Some("done")}
        \cup {c \in SetGoalsStatusCalls(Store, NoFault, Caps) :
                 c.arg.ids = <<g>> /\ c.arg.status = "done"}

\* plan p has the single step i
SingleStep(p, i) == p \in DOMAIN plans /\ StepsOfPlan(Store, p) = {i}

Active(p) == \E r \in active_plan : r.plan_id = p

ActiveIn(p, session_id) == [session_id |-> session_id, plan_id |-> p] \in active_plan

\* setting one goal done while another stays todo: nothing cascades
OneGoalOfSeveral(p, i, g, c) ==
    (/\ TodoGoals(i) = GoalsOfStep(Store, i)
     /\ Cardinality(TodoGoals(i)) >= 2)
        => /\ c.err = "none"
           /\ c.db.goals[g].status = "done"
           /\ c.db.steps[i].status = "todo"
           /\ c.db.plans[p].status = "todo"
           /\ is_empty(c.log)

\* setting the last todo goal done: one step and one plan transition
LastGoal(p, i, g, c) ==
    /\ c.err = "none"
    /\ c.db.steps[i].status = "done"
    /\ c.db.plans[p].status = "done"
    /\ Len(c.log.steps) = 1
    /\ c.log.steps[1].step_id = i
    /\ c.log.steps[1].to = "done"
    /\ Len(c.log.plans) = 1
    /\ c.log.plans[1].plan_id = p
    /\ c.log.plans[1].to = "done"

ActivationRefused ==
    \A c \in SetActivePlanCalls(Store, NoFault, RegCaps) :
        \A r \in active_plan :
            (~c.arg /\ r.plan_id = c.id /\ r.session_id # c.session) =>
                /\ c.err = "InvalidInput"
                /\ c.ref = Ref("active", <<c.id>>, r.session_id)
                /\ c.db.active_plan = active_plan
                /\ c.db = Store

\* the refused caller holds another plan, and still holds it
ActivationRefusedWitness ==
    \E c \in SetActivePlanCalls(Store, NoFault, RegCaps) :
        /\ ~c.arg
        /\ c.err = "InvalidInput"
        /\ \E r \in active_plan : r.plan_id = c.id /\ r.session_id # c.session
        /\ \E r \in active_plan : r.session_id = c.session /\ r.plan_id # c.id /\ r \in c.db.active_plan

\* set_active_plan(plan, takeover = true) calls of a session on a plan that is
\* bound to a different session
TakeoverCalls ==
    {c \in SetActivePlanCalls(Store, NoFault, RegCaps) :
        /\ c.arg
        /\ \E r \in active_plan : r.plan_id = c.id /\ r.session_id # c.session}

\* C11: set_active_plan with takeover = true by session S on a plan that is
\* active in another session T succeeds; afterwards the only binding of the
\* plan is S's, the only binding of S is this plan (so a plan S had active
\* before is no longer bound to S), and T, which held this plan, has no
\* active plan at all.
TakeoverTransfers ==
    \A c \in TakeoverCalls :
        /\ c.err = "none"
        /\ {r \in c.db.active_plan : r.plan_id = c.id \/ r.session_id = c.session}
             = {[session_id |-> c.session, plan_id |-> c.id]}
        /\ \A r \in active_plan :
              (r.plan_id = c.id /\ r.session_id # c.session)
              => ~\E q \in c.db.active_plan : q.session_id = r.session_id

\* a takeover by a session that has another plan active at the time
TakeoverTransfersWitness ==
    \E c \in TakeoverCalls :
        /\ c.err = "none"
        /\ \E r \in active_plan : r.session_id = c.session /\ r.plan_id # c.id
        /\ [session_id |-> c.session, plan_id |-> c.id] \in c.db.active_plan

\* the ids of a request that name no row of the table
MissingIds(ids, table) == {i \in Range(ids) : i \notin DOMAIN table}

\* C12: delete_steps(ids) and delete_goals(ids) are all-or-nothing over the
\* de-duplicated id list. If some requested id does not exist the call fails
\* with NotFound naming every missing id once and the store is unchanged.
\* Otherwise the call succeeds, exactly the requested rows are deleted (for
\* steps, also exactly the goals of the deleted steps; no plan and, for
\* goals, no step is deleted) and the returned count is the number of
\* distinct ids.
DeleteAllOrNothing ==
    /\ \A c \in DeleteStepsCalls(Store, NoFault, Caps) :
          LET missing == MissingIds(c.arg, steps) IN
          IF missing # {}
          THEN /\ c.err = "NotFound"
               /\ c.ref.what = "step"
               /\ Range(c.ref.ids) = missing
               /\ Len(c.ref.ids) = Cardinality(missing)
               /\ c.db = Store
          ELSE /\ c.err = "none"
               /\ DOMAIN c.db.steps = DOMAIN steps \ Range(c.arg)
               /\ DOMAIN c.db.goals =
                    {g \in DOMAIN goals : goals[g].step_id \notin Range(c.arg)}
               /\ DOMAIN c.db.plans = DOMAIN plans
               /\ c.count = Cardinality(Range(c.arg))
    /\ \A c \in DeleteGoalsCalls(Store, NoFault, Caps) :
          LET missing == MissingIds(c.arg, goals) IN
          IF missing # {}
          THEN /\ c.err = "NotFound"
               /\ c.ref.what = "goal"
               /\ Range(c.ref.ids) = missing
               /\ Len(c.ref.ids) = Cardinality(missing)
               /\ c.db = Store
          ELSE /\ c.err = "none"
               /\ DOMAIN c.db.goals = DOMAIN goals \ Range(c.arg)
               /\ DOMAIN c.db.steps = DOMAIN steps
               /\ DOMAIN c.db.plans = DOMAIN plans
               /\ c.count = Cardinality(Range(c.arg))

\* a request naming one step twice deletes it and its goal and returns 1;
\* a request naming an existing and a missing goal is refused
DeleteAllOrNothingWitness ==
    /\ \E c \in DeleteStepsCalls(Store, NoFault, Caps) :
          /\ Len(c.arg) = 2 /\ c.arg[1] = c.arg[2]
          /\ c.err = "none" /\ c.count = 1
          /\ \E g \in DOMAIN goals : goals[g].step_id = c.arg[1]
          /\ DOMAIN c.db.steps # {}
    /\ \E c \in DeleteGoalsCalls(Store, NoFault, Caps) :
          /\ Len(c.arg) = 2
          /\ c.arg[1] \in DOMAIN goals /\ c.arg[2] \notin DOMAIN goals
          /\ c.err = "NotFound"

\* the rows of a table at the ids in S
Restrict(table, S) == [x \in S |-> table[x]]

\* C13: delete_plan(id) on an existing plan removes the plan, all of its
\* steps, all goals of those steps and every ActivePlan row bound to the
\* plan, and leaves every row of every other plan (plan, step, goal and
\* binding) exactly as it was; on an id that names no plan it fails with
\* NotFound and the store is unchanged.
DeletePlanRemovesOwnTree ==
    \A c \in DeletePlanCalls(Store, NoFault, RegCaps) :
        IF c.id \notin DOMAIN plans
        THEN c.err = "NotFound" /\ c.ref.what = "plan" /\ c.db = Store
        ELSE LET keptSteps == {i \in DOMAIN steps : steps[i].plan_id # c.id}
                 keptGoals == {g \in DOMAIN goals : goals[g].step_id \in keptSteps}
             IN /\ c.err = "none"
                /\ c.db.plans = Restrict(plans, DOMAIN plans \ {c.id})
                /\ c.db.steps = Restrict(steps, keptSteps)
                /\ c.db.goals = Restrict(goals, keptGoals)
                /\ c.db.active_plan = {r \in active_plan : r.plan_id # c.id}

\* an active plan with a step and a goal is deleted while another plan exists
DeletePlanRemovesOwnTreeWitness ==
    \E c \in DeletePlanCalls(Store, NoFault, RegCaps) :
        /\ c.err = "none"
        /\ \E r \in active_plan : r.plan_id = c.id
        /\ \E g \in DOMAIN goals : steps[goals[g].step_id].plan_id = c.id
        /\ DOMAIN c.db.plans # {}
        /\ c.db.goals = EmptyFn

\* C14: the cascade never changes the status of a step that has no goals or
\* of a plan that has no steps. After a successful delete_goals every step
\* left without goals has the status it had before (Done stays Done, Todo
\* stays Todo) and no step transition is logged for it; after a successful
\* delete_steps every plan left without steps has the status it had before
\* and no plan transition is logged for it.
EmptyParentKeepsStatus ==
    /\ \A c \in DeleteGoalsCalls(Store, NoFault, Caps) :
          c.err = "none" =>
            \A i \in DOMAIN c.db.steps :
                GoalsOfStep(c.db, i) = {} =>
                    /\ c.db.steps[i].status = steps[i].status
                    /\ \A k \in 1..Len(c.log.steps) : c.log.steps[k].step_id # i
    /\ \A c \in DeleteStepsCalls(Store, NoFault, Caps) :
          c.err = "none" =>
            \A p \in DOMAIN c.db.plans :
                StepsOfPlan(c.db, p) = {} =>
                    /\ c.db.plans[p].status = plans[p].status
                    /\ \A k \in 1..Len(c.log.plans) : c.log.plans[k].plan_id # p

\* the last goal of a Todo step is deleted, and the last goal of a Done
\* step; all steps of a Todo plan are deleted, and all steps of a Done plan
EmptyParentKeepsStatusWitness ==
    /\ \A st \in StepStatus :
          \E c \in DeleteGoalsCalls(Store, NoFault, Caps) :
              \E i \in DOMAIN steps :
                  /\ c.err = "none"
                  /\ steps[i].status = st
                  /\ GoalsOfStep(Store, i) # {}
                  /\ GoalsOfStep(c.db, i) = {}
    /\ \E c \in DeleteStepsCalls(Store, NoFault, Caps) :
          \E p \in DOMAIN plans :
              /\ c.err = "none"
              /\ plans[p].status = "todo"
              /\ StepsOfPlan(Store, p) # {}
              /\ StepsOfPlan(c.db, p) = {}

AnyBlank(texts) == \E k \in 1..Len(texts) : Trim(texts[k]) = <<>>

OptBlank(o) == IsSome(o) /\ Trim(Unwrap(o)) = <<>>

\* the call failed with InvalidInput, wrote nothing and left the store as it was
Rejected(c) == c.err = "InvalidInput" /\ ~c.dirty /\ c.db = Store

\* a blank title or content (alone or as one element of a batch or of a
\* subtree) is rejected by create, batch add, subtree add and update;
\* add_steps_batch looks up its plan first, so its plan is taken to exist
BlankTitleOrContentRejected ==
    /\ \A c \in AddPlanCalls(Store, NoFault, Caps) :
          AnyBlank(<<c.arg.title, c.arg.content>>) => Rejected(c)
    /\ \A c \in UpdatePlanCalls(Store, NoFault, Caps) :
          (OptBlank(c.arg.title) \/ OptBlank(c.arg.content)) => Rejected(c)
    /\ \A c \in AddPlanTreeCalls(Store, NoFault, Caps) :
          (\/ AnyBlank(<<c.arg.input.title, c.arg.input.content>>)
           \/ \E k \in 1..Len(c.arg.steps) :
                 AnyBlank(<<c.arg.steps[k].content>> \o c.arg.steps[k].goals))
          => Rejected(c)
    /\ \A c \in AddStepsBatchCalls(Store, NoFault, Caps) :
          (c.id \in DOMAIN plans /\ AnyBlank(c.arg.contents)) => Rejected(c)
    /\ \A c \in AddGoalsBatchCalls(Store, NoFault, Caps) :
          AnyBlank(c.arg.contents) => Rejected(c)
    /\ \A c \in AddStepTreeCalls(Store, NoFault, Caps) :
          AnyBlank(<<c.arg.content>> \o c.arg.goals) => Rejected(c)
    /\ \A c \in UpdateStepCalls(Store, NoFault, Caps) \cup UpdateGoalCalls(Store, NoFault, Caps) :
          OptBlank(c.arg.content) => Rejected(c)

\* the table an update or a comment batch writes to
TableOf(op) == IF op \in {"comment_plans", "update_plan"} THEN plans
               ELSE IF op \in {"comment_steps", "update_step"} THEN steps ELSE goals

\* a blank comment is rejected by update of plan, step and goal and by the
\* comment batch, where one blank element rejects the whole batch; the
\* rows named are taken to exist
BlankCommentRejected ==
    /\ \A c \in UpdatePlanCalls(Store, NoFault, Caps) \cup UpdateStepCalls(Store, NoFault, Caps)
                \cup UpdateGoalCalls(Store, NoFault, Caps) :
          (c.id \in DOMAIN TableOf(c.op) /\ OptBlank(c.arg.comment)) => Rejected(c)
    /\ \A c \in CommentPlansCalls(Store, NoFault, Caps) \cup CommentStepsCalls(Store, NoFault, Caps)
                \cup CommentGoalsCalls(Store, NoFault, Caps) :
          (/\ \A k \in 1..Len(c.arg) : c.arg[k][1] \in DOMAIN TableOf(c.op)
           /\ AnyBlank([k \in 1..Len(c.arg) |-> c.arg[k][2]]))
          => Rejected(c)

\* C15: every operation that receives a title, content or comment whose
\* trimmed value is empty (create, batch add, subtree add, update of plan,
\* step or goal including its comment field, comment batch) fails with
\* InvalidInput before any write and leaves the store unchanged; in a batch
\* one blank element rejects the whole batch.
BlankInputRejected == BlankTitleOrContentRejected /\ BlankCommentRejected

\* add_steps_batch calls with k >= 1 valid contents on an existing plan and
\* either no position or a position p >= 1
InsertCalls ==
    {c \in AddStepsBatchCalls(Store, NoFault, OrdCaps) :
        /\ c.id \in DOMAIN plans
        /\ c.arg.contents # <<>> /\ AllWords(c.arg.contents)
        /\ (c.arg.at = None \/ \E p \in c.arg.at : p >= 1)}

\* q = N + 1 without a position, min(p, N + 1) for a position p
InsertionIndex(c) ==
    LET N == Cardinality(StepsOfPlan(Store, c.id))
    IN  IF c.arg.at = None THEN N + 1
        ELSE LET p == CHOOSE x \in c.arg.at : TRUE
             IN IF p <= N + 1 THEN p ELSE N + 1

\* C16: add_steps_batch on a plan with N steps and k new contents inserts at
\* index q, where q = N + 1 when no position is given and q = min(p, N + 1)
\* for a requested position p >= 1. The call succeeds and returns the k new
\* steps in input order; the j-th of them is a new row of the plan with
\* sort_order q + j - 1; an existing step with order < q is unchanged, and an
\* existing step with order >= q has its sort_order increased by k (so
\* these keep their relative order) and is otherwise unchanged.
InsertAtPosition ==
    \A c \in InsertCalls :
        LET k == Len(c.arg.contents)
            q == InsertionIndex(c)
        IN  /\ c.err = "none"
            /\ Len(c.rows) = k
            /\ \A j \in 1..k :
                  /\ c.rows[j] \notin DOMAIN steps
                  /\ c.rows[j] \in DOMAIN c.db.steps
                  /\ c.db.steps[c.rows[j]].plan_id = c.id
                  /\ c.db.steps[c.rows[j]].sort_order = q + j - 1
            /\ \A i, j \in 1..k : i # j => c.rows[i] # c.rows[j]
            /\ DOMAIN c.db.steps = DOMAIN steps \cup Range(c.rows)
            /\ \A i \in StepsOfPlan(Store, c.id) :
                  IF steps[i].sort_order < q
                  THEN c.db.steps[i] = steps[i]
                  ELSE c.db.steps[i] = [steps[i] EXCEPT !.sort_order = @ + k]

\* two steps are inserted before the only step of the plan, which moves to 3
InsertAtPositionWitness ==
    \E c \in InsertCalls :
        /\ Len(c.arg.contents) = 2 /\ c.arg.at = Some(1)
        /\ Cardinality(StepsOfPlan(Store, c.id)) = 1
        /\ c.err = "none"
        /\ \E i \in DOMAIN steps : c.db.steps[i].sort_order = 3

\* move_step calls on an existing step
MoveCalls == {c \in MoveStepCalls(Store, NoFault, OrdCaps) : c.id \in DOMAIN steps}

\* min(max(to, 1), N)
ClampedPosition(to, N) == IF to < 1 THEN 1 ELSE IF to > N THEN N ELSE to

\* C17: move_step(id, to) on a plan with N steps succeeds and places the step
\* at position min(max(to, 1), N); the other steps keep their relative
\* order; the sort_orders of the plan are 1..N; the returned list is the
\* whole plan in the new order; and no step changes in anything but its
\* sort_order (status and plan stay), no step or goal is added or removed.
\* E.g. [A, B, C] with C moved to 1 gives [C, A, B], and the first of three
\* moved beyond the end goes last.
MovePlacesStep ==
    \A c \in MoveCalls :
        LET mine == StepsOfPlan(Store, steps[c.id].plan_id)
            N == Cardinality(mine)
            before == OrderedSteps(Store, steps[c.id].plan_id)
        IN  /\ c.err = "none"
            /\ c.db.steps[c.id].sort_order = ClampedPosition(c.arg, N)
            /\ \A i, j \in mine \ {c.id} :
                  steps[i].sort_order < steps[j].sort_order
                  => c.db.steps[i].sort_order < c.db.steps[j].sort_order
            /\ {c.db.steps[i].sort_order : i \in mine} = 1..N
            /\ Len(c.rows) = N
            /\ \A k \in 1..N : c.rows[k] \in mine /\ c.db.steps[c.rows[k]].sort_order = k
            /\ DOMAIN c.db.steps = DOMAIN steps
            /\ \A i \in DOMAIN steps :
                  c.db.steps[i] = [steps[i] EXCEPT !.sort_order = c.db.steps[i].sort_order]
            /\ c.db.goals = goals
            /\ (N = 3 /\ c.id = before[3] /\ c.arg = 1)
                  => c.rows = <<before[3], before[1], before[2]>>
            /\ (N = 3 /\ c.id = before[1] /\ c.arg > 3)
                  => c.rows = <<before[2], before[3], before[1]>>

\* the last of three steps is moved to position 1, and the first of three
\* steps is moved to a position beyond the end
MovePlacesStepWitness ==
    /\ \E c \in MoveCalls :
          /\ Len(c.rows) = 3 /\ c.arg = 1
          /\ steps[c.id].sort_order = 3 /\ c.db.steps[c.id].sort_order = 1
    /\ \E c \in MoveCalls :
          /\ Len(c.rows) = 3 /\ c.arg > 3
          /\ steps[c.id].sort_order = 1 /\ c.db.steps[c.id].sort_order = 3

\* the invocation has the database open: it reads or writes the store
InStore(p) == pc[p] \in {"connected", "sync"}

\* C18: two non-hook invocations on one data directory never interleave.
\* An invocation holds the write guard from before it opens the database
\* until its command, the markdown sync included, has finished; at most one
\* invocation has the database open at any time; and the store an
\* invocation's command read is still the store when the command writes,
\* so that no read-modify-write of status or sort_order is lost.
InvocationsSerialized ==
    /\ \A p \in Procs : pc[p] \in {"locked", "connected", "sync", "end"} => guard = Some(p)
    /\ \A p, q \in Procs : (p # q /\ InStore(p)) => (~InStore(q) /\ pc[q] = "start")
    /\ \A p \in Procs : pc[p] = "connected" => seen[p] = Store

\* one invocation has read a store with a plan and is about to write while
\* the other has been started and waits for the lock
InvocationsSerializedWitness ==
    \E p, q \in Procs :
        /\ p # q
        /\ pc[p] = "connected" /\ DOMAIN seen[p].plans # {}
        /\ pc[q] = "start" /\ guard = Some(p)
        /\ DOMAIN steps # {}

\* room for one more plan with a full tree next to what the store holds
Roomy == [plans |-> MaxPlans + 1, steps |-> MaxSteps + MaxBatch, goals |-> MaxGoals + MaxBatch,
          executors |-> OnlyAi]

\* add_plan_tree calls whose title, content, step contents and goal
\* contents are all non-blank
TreeCalls ==
    {c \in AddPlanTreeCalls(Store, NoFault, Roomy) :
        /\ ~AnyBlank(<<c.arg.input.title, c.arg.input.content>>)
        /\ \A k \in 1..Len(c.arg.steps) :
              ~AnyBlank(<<c.arg.steps[k].content>> \o c.arg.steps[k].goals)}

Reopened(entries, key, id) ==
    \E k \in 1..Len(entries) :
        entries[k][key] = id /\ entries[k].from = "done" /\ entries[k].to = "todo"

\* add_goals_batch calls adding Todo goals with valid contents to a Done step
TodoGoalCalls ==
    {c \in AddGoalsBatchCalls(Store, NoFault, Roomy) :
        /\ c.id \in DOMAIN steps /\ steps[c.id].status = "done"
        /\ c.arg.status = "todo"
        /\ c.arg.contents # <<>> /\ AllWords(c.arg.contents)}

\* add_steps_batch and add_step_tree calls adding Todo steps with valid
\* contents to a Done plan
TodoStepCalls ==
    {c \in AddStepsBatchCalls(Store, NoFault, Roomy) :
        /\ c.id \in DOMAIN plans /\ plans[c.id].status = "done"
        /\ c.arg.status = "todo"
        /\ c.arg.contents # <<>> /\ AllWords(c.arg.contents)}
    \cup
    {c \in AddStepTreeCalls(Store, NoFault, Roomy) :
        /\ c.id \in DOMAIN plans /\ plans[c.id].status = "done"
        /\ ~AnyBlank(<<c.arg.content>> \o c.arg.goals)}

\* C20: adding a Todo child reopens Done parents. Adding a Todo goal to a
\* Done step succeeds, sets the step to Todo and, if the plan was Done, the
\* plan to Todo; adding a Todo step to a Done plan succeeds and sets the
\* plan to Todo; each reopening is a Done -> Todo transition in the
\* returned change log.
TodoChildReopensParents ==
    /\ \A c \in TodoGoalCalls :
          LET p == steps[c.id].plan_id IN
          /\ c.err = "none"
          /\ c.db.steps[c.id].status = "todo"
          /\ Reopened(c.log.steps, "step_id", c.id)
          /\ plans[p].status = "done" =>
                (c.db.plans[p].status = "todo" /\ Reopened(c.log.plans, "plan_id", p))
    /\ \A c \in TodoStepCalls :
          /\ c.err = "none"
          /\ c.db.plans[c.id].status = "todo"
          /\ Reopened(c.log.plans, "plan_id", c.id)

\* a Todo goal is added to a Done step of a Done plan, and a Todo step is
\* added to a Done plan that has a step
TodoChildReopensParentsWitness ==
    /\ \E c \in TodoGoalCalls :
          /\ plans[steps[c.id].plan_id].status = "done"
          /\ c.db.plans[steps[c.id].plan_id].status = "todo"
          /\ Len(c.log.steps) = 1 /\ Len(c.log.plans) = 1
    /\ \E c \in TodoStepCalls :
          /\ StepsOfPlan(Store, c.id) # {}
          /\ c.db.plans[c.id].status = "todo"

\* the cascade of call c set plan p to Done: the log has the transition
CascadedDone(c, p) ==
    \E k \in 1..Len(c.log.plans) : c.log.plans[k].plan_id = p /\ c.log.plans[k].to = "done"

\* C21: whenever the cascade of a call transitions a plan to Done and
\* thereby removes an ActivePlan row bound to that plan, the change log
\* returned by the call has an active_plans_cleared entry for that plan
\* with reason "plan marked done", whichever session owned the removed row.
ClearedBindingIsLogged ==
    \A c \in AllCalls(Store, NoFault, Caps) :
        \A r \in active_plan :
            (c.err = "none" /\ CascadedDone(c, r.plan_id) /\ r \notin c.db.active_plan)
            => \E k \in 1..Len(c.log.active_plans_cleared) :
                  c.log.active_plans_cleared[k] =
                      [plan_id |-> r.plan_id, reason |-> "plan marked done"]

\* the same for rows owned by the calling session only: this much the code keeps
OwnClearedBindingIsLogged ==
    \A c \in AllCalls(Store, NoFault, Caps) :
        \A r \in active_plan :
            (/\ c.err = "none" /\ CascadedDone(c, r.plan_id) /\ r \notin c.db.active_plan
             /\ r.session_id = c.session)
            => \E k \in 1..Len(c.log.active_plans_cleared) :
                  c.log.active_plans_cleared[k] =
                      [plan_id |-> r.plan_id, reason |-> "plan marked done"]

\* successful delete_steps calls that name at least one step
StepDeletions ==
    {c \in DeleteStepsCalls(Store, NoFault, OrdCaps) : c.err = "none" /\ c.arg # <<>>}

\* the plans owning the steps a delete_steps call names
AffectedPlans(c) == {steps[i].plan_id : i \in Range(c.arg)}

Completed(entries, key, id) ==
    \E k \in 1..Len(entries) :
        entries[k][key] = id /\ entries[k].from = "todo" /\ entries[k].to = "done"

\* the call removed every Todo row among kids, at least one, and left a Done one
TodoRemovedDoneLeft(c, rows, kids) ==
    /\ \E k \in kids : rows[k].status = "todo"
    /\ \A k \in kids : rows[k].status = "todo" => k \in Range(c.arg)
    /\ \E k \in kids : rows[k].status = "done" /\ k \notin Range(c.arg)

\* C23: deleting children re-runs the cascade for every affected parent. If
\* delete_goals removes all Todo goals of a step and a Done goal remains, the
\* step is Done afterwards, and its plan is Done if all its steps are then
\* Done; if delete_steps removes all Todo steps of a plan and a Done step
\* remains, the plan is Done afterwards; each row that was Todo before has
\* its Todo -> Done transition in the returned change log.
DeleteRecomputesParents ==
    /\ \A c \in DeleteGoalsCalls(Store, NoFault, Caps) :
          \A i \in DOMAIN steps :
              (c.err = "none" /\ TodoRemovedDoneLeft(c, goals, GoalsOfStep(Store, i))) =>
                  LET p == steps[i].plan_id IN
                  /\ c.db.steps[i].status = "done"
                  /\ steps[i].status = "todo" => Completed(c.log.steps, "step_id", i)
                  /\ AllDone(c.db.steps, StepsOfPlan(c.db, p)) =>
                        /\ c.db.plans[p].status = "done"
                        /\ plans[p].status = "todo" => Completed(c.log.plans, "plan_id", p)
    /\ \A c \in DeleteStepsCalls(Store, NoFault, Caps) :
          \A p \in DOMAIN plans :
              (c.err = "none" /\ TodoRemovedDoneLeft(c, steps, StepsOfPlan(Store, p))) =>
                  /\ c.db.plans[p].status = "done"
                  /\ plans[p].status = "todo" => Completed(c.log.plans, "plan_id", p)

\* the Todo goal of a Todo step is deleted, its Done goal stays, and step
\* and plan become Done; and the Todo step of a Todo plan is deleted, its
\* Done step stays, and the plan becomes Done
DeleteRecomputesParentsWitness ==
    /\ \E c \in DeleteGoalsCalls(Store, NoFault, Caps) :
          \E i \in DOMAIN steps :
              /\ c.err = "none"
              /\ TodoRemovedDoneLeft(c, goals, GoalsOfStep(Store, i))
              /\ steps[i].status = "todo" /\ plans[steps[i].plan_id].status = "todo"
              /\ c.db.steps[i].status = "done" /\ c.db.plans[steps[i].plan_id].status = "done"
    /\ \E c \in DeleteStepsCalls(Store, NoFault, Caps) :
          \E p \in DOMAIN plans :
              /\ c.err = "none"
              /\ TodoRemovedDoneLeft(c, steps, StepsOfPlan(Store, p))
              /\ plans[p].status = "todo" /\ c.db.plans[p].status = "done"

\* more row writes than one add_steps_batch makes
MaxWrites == 2 * OrdSteps + 2

\* successful add_steps_batch calls that insert at least one step
BatchInserts ==
    {c \in AddStepsBatchCalls(Store, NoFault, OrdCaps) : c.err = "none" /\ c.arg.contents # <<>>}

\* the store inside the transaction of call c just before its n-th row
\* write (n = 1: before the first; beyond the last write: at the end)
Midway(c, n) ==
    add_steps_batch(Store, c.session, c.id, c.arg.contents, c.arg.status, c.arg.executor,
                    c.arg.at, n).db

\* the existing steps of the plan that the transaction has shifted so far
Shifted(c, db) == {i \in StepsOfPlan(Store, c.id) : db.steps[i].sort_order # steps[i].sort_order}

\* C24: during add_steps_batch, at every point between two row writes, no
\* two steps of the plan hold the same sort_order; the existing steps are
\* shifted highest first (a shifted step has no unshifted step to be
\* shifted above it), and every step at or after the insertion index is
\* shifted before the first new row is written.
NoDuplicateOrderMidway ==
    \A c \in BatchInserts : \A n \in 1..MaxWrites :
        LET db == Midway(c, n)
            mine == StepsOfPlan(db, c.id)
            new == mine \ DOMAIN steps
            q == CHOOSE x \in {c.db.steps[j].sort_order : j \in Range(c.rows)} :
                     \A y \in {c.db.steps[j].sort_order : j \in Range(c.rows)} : x <= y
        IN  /\ \A i, j \in mine : i # j => db.steps[i].sort_order # db.steps[j].sort_order
            /\ \A i \in Shifted(c, db) : \A j \in StepsOfPlan(Store, c.id) :
                  steps[j].sort_order > steps[i].sort_order => j \in Shifted(c, db)
            /\ new # {} =>
                  \A i \in StepsOfPlan(Store, c.id) :
                      steps[i].sort_order >= q => i \in Shifted(c, db)

\* a point where the existing step has been shifted and the first of two
\* new rows has been written, the second not yet
NoDuplicateOrderMidwayWitness ==
    \E c \in BatchInserts : \E n \in 1..MaxWrites :
        /\ Len(c.rows) = 2
        /\ Cardinality(DOMAIN Midway(c, n).steps \ DOMAIN steps) = 1
        /\ Shifted(c, Midway(c, n)) # {}

\* normalize run once on the store with room for MaxWrites row writes, and
\* run again on its result
Normalized == normalize_steps_for_plan(Begin(Store, MaxWrites), 1)

NormalizedTwice == normalize_steps_for_plan(Begin(Normalized.db, MaxWrites), 1)

\* the row writes a run has made
WritesOf(t) == MaxWrites - t.fuel

\* C25: normalize is idempotent and minimal. It rewrites the sort_orders of
\* the plan to 1..N in (sort_order, id) order and changes nothing else; it
\* writes exactly the rows whose sort_order differs from the target, so on
\* an already dense plan it writes no row; and a second run in a row writes
\* no row.
NormalizeIdempotentMinimal ==
    LET ordered == OrderedSteps(Store, 1)
        off == {k \in 1..Len(ordered) : steps[ordered[k]].sort_order # k}
    IN  /\ Normalized.err = "none"
        /\ \A k \in 1..Len(ordered) :
              Normalized.db.steps[ordered[k]] = [steps[ordered[k]] EXCEPT !.sort_order = k]
        /\ \A k \in 1..(Len(ordered) - 1) :
              \/ steps[ordered[k]].sort_order < steps[ordered[k + 1]].sort_order
              \/ /\ steps[ordered[k]].sort_order = steps[ordered[k + 1]].sort_order
                 /\ ordered[k] < ordered[k + 1]
        /\ [Normalized.db EXCEPT !.steps = steps] = Store
        /\ WritesOf(Normalized) = Cardinality(off)
        /\ off = {} => Normalized.db = Store
        /\ WritesOf(NormalizedTwice) = 0
        /\ NormalizedTwice.db = Normalized.db

\* three steps with a tie and a gap, of which one already holds its target:
\* the first run writes two rows
NormalizeIdempotentMinimalWitness ==
    /\ Cardinality(DOMAIN steps) = 3
    /\ \E i, j \in DOMAIN steps : i # j /\ steps[i].sort_order = steps[j].sort_order
    /\ WritesOf(Normalized) = 2
    /\ WritesOf(NormalizedTwice) = 0

\* comment batches of up to MaxEntries entries over existing rows
LongEntries(ids) == SeqsUpTo({<<i, w>> : i \in ids, w \in Texts}, MaxEntries)

RepeatedIdCalls ==
    {Call("comment_plans", "s1", 0, e, Store, comment_plans(Store, "s1", e, 0), TRUE) :
        e \in LongEntries(DOMAIN plans)}
    \cup {Call("comment_steps", "s1", 0, e, Store, comment_steps(Store, "s1", e, 0), TRUE) :
        e \in LongEntries(DOMAIN steps)}
    \cup {Call("comment_goals", "s1", 0, e, Store, comment_goals(Store, "s1", e, 0), TRUE) :
        e \in LongEntries(DOMAIN goals)}

\* first and last place of an id in a batch
Places(entries, id) == {k \in 1..Len(entries) : entries[k][1] = id}

FirstPlace(entries, id) ==
    CHOOSE k \in Places(entries, id) : \A j \in Places(entries, id) : k <= j

LastPlace(entries, id) ==
    CHOOSE k \in Places(entries, id) : \A j \in Places(entries, id) : j <= k

\* C26: a comment batch over existing rows, repeated ids allowed, succeeds
\* and writes each distinct id of the batch exactly once, in order of first
\* occurrence, with the comment of that id's last entry in input order.
RepeatedIdLastCommentWins ==
    \A c \in RepeatedIdCalls :
        LET e == c.arg
            w == c.written
        IN  /\ c.err = "none"
            /\ {w[k][1] : k \in 1..Len(w)} = {e[k][1] : k \in 1..Len(e)}
            /\ \A i, j \in 1..Len(w) :
                  i < j => FirstPlace(e, w[i][1]) < FirstPlace(e, w[j][1])
            /\ \A k \in 1..Len(w) : w[k][2] = e[LastPlace(e, w[k][1])][2]

\* a batch on steps naming one id, another, then the first again with a
\* different comment: two writes, the first id first with its later comment
RepeatedIdLastCommentWinsWitness ==
    \E c \in RepeatedIdCalls :
        /\ c.op = "comment_steps"
        /\ Len(c.arg) = 3
        /\ c.arg[1][1] = c.arg[3][1]
        /\ c.arg[1][1] # c.arg[2][1]
        /\ c.arg[1][2] # c.arg[3][2]
        /\ c.written = <<c.arg[3], c.arg[2]>>

CommentCalls ==
    CommentPlansCalls(Store, NoFault, Roomy) \cup CommentStepsCalls(Store, NoFault, Roomy)
    \cup CommentGoalsCalls(Store, NoFault, Roomy)

\* the plans owning the rows a comment call names
OwningPlans(c) ==
    LET ids == {c.arg[k][1] : k \in 1..Len(c.arg)}
    IN  CASE c.op = "comment_plans" -> ids
          [] c.op = "comment_steps" -> {steps[i].plan_id : i \in ids}
          [] OTHER -> {steps[goals[g].step_id].plan_id : g \in ids}

\* C27: the comment batches are all-or-nothing. If an id of the batch does
\* not exist the call fails with NotFound naming exactly the missing ids and
\* the store is left as it was. Otherwise the call succeeds and, besides the
\* comments, only last_session_id of the owning plans changes: every status
\* and sort_order, every step and goal row, the ActivePlan rows and the row
\* sets stay as they were.
CommentAllOrNothing ==
    \A c \in CommentCalls :
        LET named == {c.arg[k][1] : k \in 1..Len(c.arg)}
            missing == named \ DOMAIN TableOf(c.op)
        IN  IF missing # {}
            THEN /\ c.err = "NotFound"
                 /\ Range(c.ref.ids) = missing
                 /\ c.written = <<>>
                 /\ ~c.dirty
                 /\ c.db = Store
            ELSE /\ c.err = "none"
                 /\ {c.written[k][1] : k \in 1..Len(c.written)} = named
                 /\ c.db.steps = steps
                 /\ c.db.goals = goals
                 /\ c.db.active_plan = active_plan
                 /\ c.db.seq = seq
                 /\ DOMAIN c.db.plans = DOMAIN plans
                 /\ \A p \in DOMAIN plans :
                       IF p \in OwningPlans(c)
                       THEN c.db.plans[p] = [plans[p] EXCEPT !.last_session_id = c.session]
                       ELSE c.db.plans[p] = plans[p]

\* a batch on steps naming an existing and a missing step is refused, and a
\* batch on an existing goal succeeds and changes the store (the plan is
\* touched by another session), in a state with a Done plan and a binding
CommentAllOrNothingWitness ==
    /\ \E c \in CommentCalls :
          /\ c.op = "comment_steps" /\ c.err = "NotFound"
          /\ \E k \in 1..Len(c.arg) : c.arg[k][1] \in DOMAIN steps
    /\ \E c \in CommentCalls :
          /\ c.op = "comment_goals" /\ c.err = "none"
          /\ c.arg # <<>> /\ c.db # Store
    /\ active_plan # {}
    /\ \E p \in DOMAIN plans : plans[p].status = "done"

\* set_step_done_with_goals on the existing steps
StepDoneCalls ==
    {c \in SetStepDoneWithGoalsCalls(Store, NoFault, Caps) : c.id \in DOMAIN steps}

\* C28: set_step_done_with_goals with all_goals on an existing step always
\* succeeds, whatever the number of its Todo goals: afterwards every goal of
\* the step is Done, the step is Done, and its plan is Done exactly if all
\* its steps are Done. Without all_goals and with a Todo goal it fails with
\* InvalidInput and no row changes.
StepDoneWithGoals ==
    \A c \in StepDoneCalls :
        LET kids == GoalsOfStep(Store, c.id)
            p == steps[c.id].plan_id
        IN  /\ c.arg =>
                /\ c.err = "none"
                /\ GoalsOfStep(c.db, c.id) = kids
                /\ \A g \in kids : c.db.goals[g].status = "done"
                /\ c.db.steps[c.id].status = "done"
                /\ c.db.plans[p].status = "done" <=> AllDone(c.db.steps, StepsOfPlan(c.db, p))
            /\ (~c.arg /\ \E g \in kids : goals[g].status = "todo") =>
                /\ c.err = "InvalidInput"
                /\ ~c.dirty
                /\ c.db = Store

\* a Todo step with two Todo goals beside a Todo step: with all_goals the
\* call succeeds and leaves the plan Todo; without, it is refused
StepDoneWithGoalsWitness ==
    \E c, d \in StepDoneCalls :
        /\ c.id = d.id /\ c.arg /\ ~d.arg
        /\ steps[c.id].status = "todo"
        /\ Cardinality({g \in GoalsOfStep(Store, c.id) : goals[g].status = "todo"}) = 2
        /\ c.err = "none" /\ c.db.plans[steps[c.id].plan_id].status = "todo"
        /\ Cardinality(DOMAIN steps) = 2
        /\ d.err = "InvalidInput"

\* committed goal additions, updates and deletions
GoalWrites ==
    {c \in AddGoalsBatchCalls(Store, NoFault, Roomy) \cup UpdateGoalCalls(Store, NoFault, Caps)
            \cup SetGoalsStatusCalls(Store, NoFault, Caps)
            \cup DeleteGoalsCalls(Store, NoFault, Caps) :
        c.err = "none" /\ c.dirty}

\* the steps owning the goals a goal write names
StepsOfGoalWrite(c) ==
    LET named == CASE c.op = "add_goals_batch" -> {}
                   [] c.op = "update_goal" -> {c.id}
                   [] c.op = "set_goals_status" -> Range(c.arg.ids)
                   [] OTHER -> Range(c.arg)
    IN  IF c.op = "add_goals_batch" THEN {c.id} \cap DOMAIN steps
        ELSE {goals[g].step_id : g \in named \cap DOMAIN goals}

\* C29: after any committed goal add, update or delete, the owning plan has
\* status Done exactly if all its steps are Done (it has at least one step,
\* the one owning the goal), whether or not the step's own status changed
\* and whether or not the step has any goals left.
GoalWriteRecomputesPlan ==
    \A c \in GoalWrites :
        \A i \in StepsOfGoalWrite(c) :
            LET p == steps[i].plan_id
            IN  c.db.plans[p].status = "done" <=> AllDone(c.db.steps, StepsOfPlan(c.db, p))

\* the same for the writes that leave the step with at least one goal
GoalWriteRecomputesPlanIfGoalsLeft ==
    \A c \in GoalWrites :
        \A i \in StepsOfGoalWrite(c) :
            LET p == steps[i].plan_id
            IN  GoalsOfStep(c.db, i) # {} =>
                  (c.db.plans[p].status = "done" <=> AllDone(c.db.steps, StepsOfPlan(c.db, p)))

\* the rows that are Done after call c and were not Done rows before it
NewlyDone(before, after) ==
    {i \in DOMAIN after : after[i].status = "done"
                            /\ (i \notin DOMAIN before \/ before[i].status # "done")}

\* step i became Done by the cascade of call c: the log has the transition
\* and the step has goals, all Done
StepCascadedDone(c, i) ==
    /\ \E k \in 1..Len(c.log.steps) : c.log.steps[k].step_id = i /\ c.log.steps[k].to = "done"
    /\ GoalsOfStep(c.db, i) # {}
    /\ AllDone(c.db.goals, GoalsOfStep(c.db, i))

\* plan p became Done by the cascade of call c
PlanCascadedDone(c, p) ==
    /\ CascadedDone(c, p)
    /\ StepsOfPlan(c.db, p) # {}
    /\ AllDone(c.db.steps, StepsOfPlan(c.db, p))

\* step i was set Done by call c, an explicit status update that passed the
\* guard: no goal of the step is Todo
StepGuardedDone(c, i) ==
    /\ c.id = i
    /\ \/ c.op = "set_step_done_with_goals"
       \/ c.op = "update_step" /\ c.arg.status = Some("done")
    /\ AllDone(c.db.goals, GoalsOfStep(c.db, i))

\* the same for plan p
PlanGuardedDone(c, p) ==
    /\ c.id = p
    /\ c.op = "update_plan" /\ c.arg.status = Some("done")
    /\ AllDone(c.db.steps, StepsOfPlan(c.db, p))

\* step i was created Done by call c: add_steps_batch asked to insert Done
StepInsertedDone(c, i) ==
    /\ c.op = "add_steps_batch" /\ c.arg.status = "done"
    /\ i \notin DOMAIN steps
    /\ \E k \in 1..Len(c.rows) : c.rows[k] = i

\* every call of every operation, the creating ones also where the store
\* explored has no more room
EveryCall ==
    AllCalls(Store, NoFault, Caps) \cup AddStepsBatchCalls(Store, NoFault, Roomy)
    \cup AddStepTreeCalls(Store, NoFault, Roomy) \cup AddPlanTreeCalls(Store, NoFault, Roomy)

\* C30 as stated: over every call of every operation, a Step or Plan row
\* that is Done afterwards and was not before became so by the cascade or
\* by an explicit status update that passed the manual Done guard.
DoneOnlyByCascadeOrGuard ==
    \A c \in EveryCall :
        /\ \A i \in NewlyDone(steps, c.db.steps) :
              StepCascadedDone(c, i) \/ StepGuardedDone(c, i)
        /\ \A p \in NewlyDone(plans, c.db.plans) :
              PlanCascadedDone(c, p) \/ PlanGuardedDone(c, p)

\* C30: over every call of every operation, a Step row that is Done
\* afterwards and was not before became so by the cascade, by an explicit
\* status update that passed the manual Done guard, or by being inserted by
\* add_steps_batch called with status Done; a Plan row only in the first two
\* ways. add_plan, add_plan_tree and add_step_tree create no Done row.
DoneByCascadeGuardOrInsert ==
    \A c \in EveryCall :
        /\ \A i \in NewlyDone(steps, c.db.steps) :
              StepCascadedDone(c, i) \/ StepGuardedDone(c, i) \/ StepInsertedDone(c, i)
        /\ \A p \in NewlyDone(plans, c.db.plans) :
              PlanCascadedDone(c, p) \/ PlanGuardedDone(c, p)
        /\ c.op \in {"add_plan", "add_plan_tree", "add_step_tree"} =>
              /\ NewlyDone(steps, c.db.steps) = {}
              /\ NewlyDone(plans, c.db.plans) = {}

\* from one state with a Todo plan: a goal status call completes a step by the
\* cascade, an explicit update sets a step without goals Done, and
\* add_steps_batch inserts a Done step; a step tree is added as Todo rows
DoneByCascadeGuardOrInsertWitness ==
    /\ \E c \in SetGoalsStatusCalls(Store, NoFault, Caps) :
          \E i \in NewlyDone(steps, c.db.steps) : StepCascadedDone(c, i)
    /\ \E c \in UpdateStepCalls(Store, NoFault, Caps) :
          \E i \in NewlyDone(steps, c.db.steps) : StepGuardedDone(c, i)
    /\ \E c \in AddStepsBatchCalls(Store, NoFault, Roomy) :
          \E i \in NewlyDone(steps, c.db.steps) : StepInsertedDone(c, i)
    /\ \E c \in AddStepTreeCalls(Store, NoFault, Roomy) :
          c.err = "none" /\ c.db.steps # steps

BindingCalls ==
    SetActivePlanCalls(Store, NoFault, RegCaps) \cup ClearActivePlanCalls(Store, NoFault, RegCaps)

\* the rows of another session bound to another plan than the one call c names
\* (clear_active_plan names none)
ForeignRows(c) ==
    {r \in active_plan : r.session_id # c.session
                         /\ (c.op = "clear_active_plan" \/ r.plan_id # c.id)}

\* C31: bindings are scoped to the session. set_active_plan(p, _) and
\* clear_active_plan by session S leave every ActivePlan row of another
\* session on another plan in place and add no row but S's own; when two
\* sessions activate two different existing plans one after the other both
\* calls succeed and each session then reads back its own plan; and
\* clear_active_plan by a session without a binding succeeds and leaves the
\* store as it was.
BindingsScopedToSession ==
    /\ \A c \in BindingCalls :
          /\ ForeignRows(c) \subseteq c.db.active_plan
          /\ c.db.active_plan \ active_plan \subseteq {[session_id |-> c.session, plan_id |-> c.id]}
          /\ \A r \in c.db.active_plan \ ForeignRows(c) :
                r.session_id = c.session \/ r \in active_plan
          /\ (c.op = "clear_active_plan" /\ get_active_plan(Store, c.session) = None) =>
                (c.err = "none" /\ c.db = Store)
          /\ c.op = "clear_active_plan" =>
                (c.err = "none" /\ get_active_plan(c.db, c.session) = None)
    /\ \A c \in SetActivePlanCalls(Store, NoFault, RegCaps) :
          \A d \in SetActivePlanCalls(c.db, NoFault, RegCaps) :
              (/\ c.session # d.session /\ c.id # d.id
               /\ c.id \in DOMAIN plans /\ d.id \in DOMAIN plans
               /\ c.err = "none") =>
                  /\ d.err = "none"
                  /\ get_active_plan(d.db, c.session) = Some(c.id)
                  /\ get_active_plan(d.db, d.session) = Some(d.id)

\* two plans, s1 bound to plan 1 and s2 without a binding: s2 can activate
\* plan 2 and read it back while s1 still reads plan 1, and s2 can clear
BindingsScopedToSessionWitness ==
    /\ DOMAIN plans = {1, 2}
    /\ active_plan = {[session_id |-> "s1", plan_id |-> 1]}
    /\ \E c \in BindingCalls :
          /\ c.op = "set_active_plan" /\ c.session = "s2" /\ c.id = 2 /\ c.err = "none"
          /\ get_active_plan(c.db, "s1") = Some(1)
          /\ get_active_plan(c.db, "s2") = Some(2)
    /\ \E c \in BindingCalls :
          c.op = "clear_active_plan" /\ c.session = "s2" /\ c.err = "none"

\* successful step and goal adds, updates, status sets, deletes and comments,
\* and successful activations, that name at least one row
TouchingCalls ==
    {c \in AddStepsBatchCalls(Store, NoFault, Roomy) \cup AddStepTreeCalls(Store, NoFault, Roomy)
            \cup AddGoalsBatchCalls(Store, NoFault, Roomy)
            \cup UpdateStepCalls(Store, NoFault, Caps)
            \cup SetStepDoneWithGoalsCalls(Store, NoFault, Caps)
            \cup DeleteStepsCalls(Store, NoFault, Caps)
            \cup UpdateGoalCalls(Store, NoFault, Caps)
            \cup SetGoalsStatusCalls(Store, NoFault, Caps)
            \cup DeleteGoalsCalls(Store, NoFault, Caps)
            \cup CommentStepsCalls(Store, NoFault, Caps)
            \cup CommentGoalsCalls(Store, NoFault, Caps)
            \cup SetActivePlanCalls(Store, NoFault, Caps) :
        c.err = "none"}

PlansOfSteps(S) == {steps[i].plan_id : i \in S \cap DOMAIN steps}

StepsOfGoals(G) == {goals[g].step_id : g \in G \cap DOMAIN goals}

\* the plans owning the rows call c names, as the store had them
PlansNamed(c) ==
    CASE c.op \in {"add_steps_batch", "add_step_tree", "set_active_plan"} ->
           {c.id}
      [] c.op = "add_goals_batch" -> PlansOfSteps({c.id})
      [] c.op \in {"update_step", "set_step_done_with_goals"} -> PlansOfSteps({c.id})
      [] c.op = "delete_steps" -> PlansOfSteps(Range(c.arg))
      [] c.op = "update_goal" -> PlansOfSteps(StepsOfGoals({c.id}))
      [] c.op = "set_goals_status" -> PlansOfSteps(StepsOfGoals(Range(c.arg.ids)))
      [] c.op = "delete_goals" -> PlansOfSteps(StepsOfGoals(Range(c.arg)))
      [] c.op = "comment_steps" -> PlansOfSteps({c.arg[k][1] : k \in 1..Len(c.arg)})
      [] OTHER -> PlansOfSteps(StepsOfGoals({c.arg[k][1] : k \in 1..Len(c.arg)}))

\* a batch add that is given no contents: Ok before any statement
EmptyAdd(c) == c.op \in {"add_steps_batch", "add_goals_batch"} /\ c.arg.contents = <<>>

\* C34 as stated: after any successful step or goal add, update, status set,
\* delete or comment, and after a successful set_active_plan, by session S,
\* every plan owning a row the call names has last_session_id S.
CallerTouchesOwningPlan ==
    \A c \in TouchingCalls :
        \A p \in PlansNamed(c) : c.db.plans[p].last_session_id = c.session

\* C34, amended: the same for every such call except a batch add without
\* contents, also when the call changed no status.
CallerTouchesOwningPlanUnlessEmptyAdd ==
    \A c \in TouchingCalls :
        ~EmptyAdd(c) =>
            \A p \in PlansNamed(c) : c.db.plans[p].last_session_id = c.session

\* a plan last touched by s1: s2 updates only the content of a step, sets
\* only the comment of a goal and removes a goal, and each leaves s2 on it
CallerTouchesOwningPlanUnlessEmptyAddWitness ==
    /\ \E p \in DOMAIN plans : plans[p].last_session_id = "s1"
    /\ \E c \in TouchingCalls :
          /\ c.op = "update_step" /\ c.session = "s2"
          /\ c.arg.status = None /\ c.arg.content # None
          /\ PlansNamed(c) # {} /\ c.db.steps = steps
    /\ \E c \in TouchingCalls :
          /\ c.op = "update_goal" /\ c.session = "s2" /\ c.arg.comment # None
          /\ PlansNamed(c) # {}
    /\ \E c \in TouchingCalls :
          c.op = "delete_goals" /\ c.session = "s2" /\ PlansNamed(c) # {}

\* every step names a plan, every goal a step, every binding a plan, of db
Referenced(db) ==
    /\ \A i \in DOMAIN db.steps : db.steps[i].plan_id \in DOMAIN db.plans
    /\ \A g \in DOMAIN db.goals : db.goals[g].step_id \in DOMAIN db.steps
    /\ \A r \in db.active_plan : r.plan_id \in DOMAIN db.plans

\* the adds and the activation, with the parent row each one names
ParentOf(c) ==
    CASE c.op \in {"add_steps_batch", "add_step_tree", "set_active_plan"} ->
           [given |-> TRUE, missing |-> c.id \notin DOMAIN plans]
      [] c.op = "add_goals_batch" /\ c.arg.contents # <<>> ->
           [given |-> TRUE, missing |-> c.id \notin DOMAIN steps]
      [] OTHER -> [given |-> FALSE, missing |-> FALSE]

\* C38: in every committed state reached through App operations every
\* step's plan_id names a stored plan, every goal's step_id a stored step and
\* every binding's plan_id a stored plan; so does the state every call
\* leaves, failed and interrupted calls included; an add or an activation
\* naming a missing parent fails and changes nothing: with NotFound, or with
\* InvalidInput where add_step_tree or add_goals_batch is handed a blank
\* content, which they check first.
ReferentialIntegrity ==
    /\ Referenced(Store)
    /\ \A c \in AllCalls(Store, Faults, Caps) : Referenced(c.db)
    /\ \A c \in AllCalls(Store, NoFault, Caps) :
          ParentOf(c).given /\ ParentOf(c).missing =>
              /\ c.err \in {"NotFound", "InvalidInput"}
              /\ c.err = "InvalidInput" => c.op \in {"add_step_tree", "add_goals_batch"}
              /\ c.db = Store

\* a plan with a step, a goal and a binding is stored and delete_plan
\* removes all four; once it is gone, adding a step to it and activating it
\* are refused, and adding a goal to a missing step is refused
ReferentialIntegrityWitness ==
    \/ /\ \E r \in active_plan : \E g \in DOMAIN goals :
              steps[goals[g].step_id].plan_id = r.plan_id
       /\ \E c \in DeletePlanCalls(Store, NoFault, Caps) :
              /\ c.err = "none" /\ c.db.steps = EmptyFn /\ c.db.goals = EmptyFn
              /\ c.db.active_plan = {}
    \/ /\ seq.plan > 0 /\ plans = EmptyFn
       /\ \E c \in AddStepsBatchCalls(Store, NoFault, Caps) :
              c.arg.contents # <<>> /\ c.err = "NotFound"
       /\ \E c \in SetActivePlanCalls(Store, NoFault, Caps) : c.err = "NotFound"
       /\ \E c \in AddGoalsBatchCalls(Store, NoFault, Caps) :
              c.arg.contents # <<>> /\ c.err = "NotFound"

\* C39: in the change log a successful call of any App operation returns,
\* every step entry and every plan entry has from # to, its from is the
\* status the row had in the store before the call and its to the status
\* the row has after it, and no step id and no plan id has two entries.
LogEntriesAreStoredTransitions ==
    \A c \in EveryCall :
        c.err = "none" =>
            /\ \A k \in 1..Len(c.log.steps) :
                  LET e == c.log.steps[k] IN
                  /\ e.from # e.to
                  /\ e.step_id \in DOMAIN steps /\ steps[e.step_id].status = e.from
                  /\ e.step_id \in DOMAIN c.db.steps /\ c.db.steps[e.step_id].status = e.to
                  /\ \A j \in 1..Len(c.log.steps) :
                        c.log.steps[j].step_id = e.step_id => j = k
            /\ \A k \in 1..Len(c.log.plans) :
                  LET e == c.log.plans[k] IN
                  /\ e.from # e.to
                  /\ e.plan_id \in DOMAIN plans /\ plans[e.plan_id].status = e.from
                  /\ e.plan_id \in DOMAIN c.db.plans /\ c.db.plans[e.plan_id].status = e.to
                  /\ \A j \in 1..Len(c.log.plans) :
                        c.log.plans[j].plan_id = e.plan_id => j = k

\* one set_goals_status call completes the goals of two steps of one plan:
\* both steps are logged, the plan once
LogEntriesAreStoredTransitionsWitness ==
    \E c \in SetGoalsStatusCalls(Store, NoFault, Caps) :
        /\ c.err = "none" /\ Len(c.log.steps) = 2 /\ Len(c.log.plans) = 1
        /\ c.db.steps[c.log.steps[1].step_id].plan_id
              = c.db.steps[c.log.steps[2].step_id].plan_id

\* successful update_goal calls that supply no status
GoalEditsWithoutStatus ==
    {c \in UpdateGoalCalls(Store, NoFault, Caps) : c.err = "none" /\ c.arg.status = None}

\* the statuses of goal id, of its step and of its plan in db
StatusesAround(db, id) ==
    LET step_id == db.goals[id].step_id
        plan_id == db.steps[step_id].plan_id
    IN <<db.goals[id].status, db.steps[step_id].status, db.plans[plan_id].status>>

\* C40: update_goal that supplies no status (content and/or comment only)
\* leaves the status of the goal, of its step and of its plan unchanged and
\* returns an empty change log.
GoalEditKeepsStatuses ==
    \A c \in GoalEditsWithoutStatus :
        /\ StatusesAround(c.db, c.id) = StatusesAround(Store, c.id)
        /\ is_empty(c.log)

\* the same where the stored statuses of steps and plans agree with their
\* children before the call
GoalEditKeepsStatusesIfDerived ==
    PlanDoneIffAllStepsDone /\ StepDoneIffAllGoalsDone => GoalEditKeepsStatuses

\* ------------------------------------------------- main.rs: the commands
\* A handler runs against the store db for the session of the invocation.
\* It returns what the process leaves behind: err (the AppError that ends
\* run(), or "none"), ref (what the error names), out (the lines printed,
\* in order) and db (the store, with everything committed before an error).
\* A printed line is a text with the id and the word it is formatted with.
Line(text, id, word) == [text |-> text, id |-> id, word |-> word]

Started(db) == [db |-> db, err |-> "none", ref |-> NoRef, out |-> <<>>]

\* return Err(AppError::InvalidInput(..)) and the like
Refuse(r, kind, ref) == IF r.err # "none" THEN r ELSE [r EXCEPT !.err = kind, !.ref = ref]

println(r, line) == IF r.err # "none" THEN r ELSE [r EXCEPT !.out = Append(@, line)]

RECURSIVE print_lines(_, _)
print_lines(r, lines) ==
    IF lines = <<>> THEN r ELSE print_lines(println(r, Head(lines)), Tail(lines))

\* app.operation(..).await? : the call c was made on r.db
Awaited(r, c) ==
    IF r.err # "none" THEN r ELSE [r EXCEPT !.db = c.db, !.err = c.err, !.ref = c.ref]

require_non_empty(r, label, value) ==
    IF Trim(value) = <<>> THEN Refuse(r, "InvalidInput", Ref("blank", <<>>, label)) ELSE r

RECURSIVE require_all_non_empty(_, _, _)
require_all_non_empty(r, label, values) ==
    IF values = <<>> THEN r
    ELSE require_all_non_empty(require_non_empty(r, label, Head(values)), label, Tail(values))

require_opt_non_empty(r, label, o) ==
    IF IsSome(o) THEN require_non_empty(r, label, Unwrap(o)) ELSE r

get_plan(r, id) ==
    IF id \in DOMAIN r.db.plans THEN r ELSE Refuse(r, "NotFound", Ref("plan", <<id>>, ""))

get_step(r, id) ==
    IF id \in DOMAIN r.db.steps THEN r ELSE Refuse(r, "NotFound", Ref("step", <<id>>, ""))

\* util.rs: the lines of a step's detail up to its content
format_step_detail(db, id) ==
    << Line("Step ID: ", id, ""),
       Line("Plan ID: ", db.steps[id].plan_id, ""),
       Line("Status: ", 0, db.steps[id].status),
       Line("Executor: ", 0, db.steps[id].executor),
       Line("Content: ", id, "") >>

print_status_changes(r, changes) ==
    IF r.err # "none" THEN r
    ELSE IF is_empty(changes) THEN r
    ELSE print_lines(println(r, Line("Auto status updates:", 0, "")),
             [k \in 1..Len(changes.steps) |->
                 Line("- Step ID: {} status auto-updated", changes.steps[k].step_id,
                      changes.steps[k].to)]
             \o [k \in 1..Len(changes.plans) |->
                 Line("- Plan ID: {} status auto-updated", changes.plans[k].plan_id,
                      changes.plans[k].to)]
             \o [k \in 1..Len(changes.active_plans_cleared) |->
                 Line("- Active plan deactivated for plan ID: ",
                      changes.active_plans_cleared[k].plan_id, "")])

notify_plan_completed(r, plan_id) ==
    println(r, Line("Plan ID: {} is complete.", plan_id, ""))

notify_next_step_for_plan(r, plan_id) ==
    LET next == next_step_with_conn(r.db, plan_id) IN
    IF next = None THEN r
    ELSE IF r.db.steps[Unwrap(next)].executor = "ai"
    THEN println(r, Line("Next step is assigned to ai (step ID: {}).", Unwrap(next), ""))
    ELSE println(print_lines(println(r, Line("Next step requires human action:", 0, "")),
                             format_step_detail(r.db, Unwrap(next))),
                 Line("Tell the user to complete the above step and goals.", 0, ""))

\* the plans are visited in the iteration order of a HashSet; here by id
RECURSIVE notify_next_steps(_, _)
notify_next_steps(r, plan_ids) ==
    IF plan_ids = <<>> THEN r
    ELSE notify_next_steps(notify_next_step_for_plan(r, Head(plan_ids)), Tail(plan_ids))

RECURSIVE get_steps(_, _)
get_steps(r, ids) ==
    IF ids = <<>> THEN r ELSE get_steps(get_step(r, Head(ids)), Tail(ids))

notify_after_step_changes(r, changes) ==
    LET done == SelectSeq(changes.steps, LAMBDA e : e.to = "done")
        ids == [k \in 1..Len(done) |-> done[k].step_id]
        r1 == get_steps(r, ids)
    IN  IF ~Ok(r1) THEN r1
        ELSE notify_next_steps(r1, AscSeq({r.db.steps[i].plan_id : i \in Range(ids)}))

RECURSIVE notify_completed(_, _)
notify_completed(r, plan_ids) ==
    IF plan_ids = <<>> \/ r.err # "none" THEN r
    ELSE LET r1 == get_plan(r, Head(plan_ids))
             r2 == IF Ok(r1) /\ r1.db.plans[Head(plan_ids)].status = "done"
                   THEN notify_plan_completed(r1, Head(plan_ids))
                   ELSE r1
         IN notify_completed(r2, Tail(plan_ids))

notify_plans_completed(r, changes) ==
    LET done == SelectSeq(changes.plans, LAMBDA e : e.to = "done")
    IN notify_completed(r, AscSeq({done[k].plan_id : k \in 1..Len(done)}))

\* ---------------------------------------------------------- plan commands
\* handle_plan_add once its call c has returned
PlanAdded(r, c, args) ==
    println(Awaited(r, c), Line("Created plan ID: ", c.db.seq.plan, ""))

handle_plan_add(db, session_id, args) ==
    LET r == require_non_empty(Started(db), "plan content", args.content)
    IN  PlanAdded(r,
                  Call("add_plan", session_id, 0, args, db, add_plan(db, session_id, args, 0), FALSE), args)

\* spec.executor.map(step_executor_from_arg).unwrap_or(StepExecutor::Ai)
StepInputOf(spec) ==
    [content |-> spec.content,
     executor |-> IF IsSome(spec.executor) THEN Unwrap(spec.executor) ELSE "ai",
     goals |-> spec.goals]

RECURSIVE require_step_specs(_, _)
require_step_specs(r, specs) ==
    IF specs = <<>> THEN r
    ELSE LET r1 == require_non_empty(r, "step content", Head(specs).content)
             r2 == require_all_non_empty(r1, "goal content", Head(specs).goals)
         IN require_step_specs(r2, Tail(specs))

\* handle_plan_add_tree once its call c has returned
PlanTreeAdded(r, c, args) ==
    println(Awaited(r, c), Line("Created plan ID: ", c.db.seq.plan, ""))

handle_plan_add_tree(db, session_id, args) ==
    LET r1 == require_non_empty(Started(db), "plan title", args.input.title)
        r2 == require_non_empty(r1, "plan content", args.input.content)
        r3 == IF args.steps = <<>>
              THEN Refuse(r2, "InvalidInput", Ref("no --step", <<>>, ""))
              ELSE r2
        r4 == require_step_specs(r3, args.steps)
        inputs == [k \in 1..Len(args.steps) |-> StepInputOf(args.steps[k])]
    IN  PlanTreeAdded(r4,
                      Call("add_plan_tree", session_id, 0, args, db,
                      add_plan_tree(db, session_id, args.input, inputs, 0), TRUE), args)

\* parse_comment_pairs on pairs that parse: <<id, comment>> entries
parse_comment_pairs(r, kind, entries) ==
    IF entries = <<>>
    THEN Refuse(r, "InvalidInput", Ref("no pairs", <<>>, kind))
    ELSE require_all_non_empty(r, "comment", [k \in 1..Len(entries) |-> entries[k][2]])

\* handle_plan_comment once its call c has returned
PlanCommented(r, c, args) ==
    println(Awaited(r, c), Line("Updated plan comments for {} plans.", Len(c.rows), ""))

handle_plan_comment(db, session_id, args) ==
    LET r == parse_comment_pairs(Started(db), "plan", args)
    IN  PlanCommented(r,
                      Call("comment_plans", session_id, 0, args, db,
                      comment_plans(db, session_id, args, 0), TRUE), args)

\* after update_plan_with_active_clear returned (plan, cleared) as call c
PlanUpdated(r, c, id, line) ==
    LET r1 == println(Awaited(r, c), line)
        r2 == IF c.flag
              THEN println(r1, Line("Active plan deactivated because plan is done.", 0, ""))
              ELSE r1
    IN  IF Ok(r2) /\ r2.db.plans[id].status = "done"
        THEN notify_plan_completed(r2, id)
        ELSE r2

handle_plan_update(db, session_id, args) ==
    LET r == require_opt_non_empty(Started(db), "plan content", args.changes.content)
        c == Call("update_plan", session_id, args.id, args.changes, db,
                  update_plan_with_active_clear(db, session_id, args.id, args.changes, 0), TRUE)
    IN PlanUpdated(r, c, args.id, Line("Updated plan ID: ", args.id, ""))

handle_plan_done(db, session_id, args) ==
    LET changes == [title |-> None, content |-> None, status |-> Some("done"),
                    comment |-> None]
        c == Call("update_plan", session_id, args.id, changes, db,
                  update_plan_with_active_clear(db, session_id, args.id, changes, 0), TRUE)
    IN PlanUpdated(Started(db), c, args.id, Line("Plan ID: {} marked done.", args.id, ""))

handle_plan_remove(db, session_id, args) ==
    LET c == Call("delete_plan", session_id, args.id, FALSE, db,
                  delete_plan(db, session_id, args.id, 0), TRUE)
    IN println(Awaited(Started(db), c), Line("Plan ID: {} removed.", args.id, ""))

\* a plausible slip: the plan's status is not looked at
handle_plan_activate_any(db, session_id, args) ==
    LET r1 == get_plan(Started(db), args.id)
        c == Call("set_active_plan", session_id, args.id, args.force, db,
                  set_active_plan(db, session_id, args.id, args.force, 0), TRUE)
    IN println(Awaited(r1, c), Line("Active plan set to ", args.id, ""))

handle_plan_activate(db, session_id, args) ==
    LET r1 == get_plan(Started(db), args.id)
        r2 == IF Ok(r1) /\ db.plans[args.id].status = "done"
              THEN Refuse(r1, "InvalidInput", Ref("plan is done", <<args.id>>, ""))
              ELSE r1
        c == Call("set_active_plan", session_id, args.id, args.force, db,
                  set_active_plan(db, session_id, args.id, args.force, 0), TRUE)
    IN println(Awaited(r2, c), Line("Active plan set to ", args.id, ""))

\* a plausible slip: the missing plan is reported, its binding is left
handle_plan_active_keeping(db, session_id, args) ==
    LET state == get_active_plan(db, session_id)
    IN  IF state = None
        THEN println(Started(db), Line("No active plan.", 0, ""))
        ELSE IF Unwrap(state) \notin DOMAIN db.plans
        THEN println(Started(db), Line("Active plan ID: {} not found.", Unwrap(state), ""))
        ELSE println(Started(db), Line("Plan ID: ", Unwrap(state), ""))

handle_plan_active(db, session_id, args) ==
    LET state == get_active_plan(db, session_id)
        c == Call("clear_active_plan", session_id, 0, FALSE, db,
                  clear_active_plan(db, session_id, 0), FALSE)
    IN  IF state = None
        THEN println(Started(db), Line("No active plan.", 0, ""))
        ELSE IF Unwrap(state) \notin DOMAIN db.plans
        THEN println(Awaited(Started(db), c),
                     Line("Active plan ID: {} not found.", Unwrap(state), ""))
        ELSE println(Started(db), Line("Plan ID: ", Unwrap(state), ""))

handle_plan_deactivate(db, session_id, args) ==
    LET c == Call("clear_active_plan", session_id, 0, FALSE, db,
                  clear_active_plan(db, session_id, 0), FALSE)
    IN println(Awaited(Started(db), c), Line("Active plan deactivated.", 0, ""))

\* ---------------------------------------------------------- step commands
\* handle_step_add once its call c has returned
StepsAdded(r, c, args) ==
    LET r4 == println(Awaited(r, c), Line("Created {} steps for plan ID: ", args.plan_id, ""))
    IN print_status_changes(r4, c.log)

handle_step_add(db, session_id, args) ==
    LET r1 == IF args.contents = <<>>
              THEN Refuse(Started(db), "InvalidInput", Ref("no contents provided", <<>>, ""))
              ELSE Started(db)
        r2 == require_all_non_empty(r1, "step content", args.contents)
        r3 == IF args.at = Some(0)
              THEN Refuse(r2, "InvalidInput", Ref("position starts at 1", <<>>, ""))
              ELSE r2
    IN  StepsAdded(r3,
                   Call("add_steps_batch", session_id, args.plan_id, args, db,
                   add_steps_batch(db, session_id, args.plan_id, args.contents, "todo",
                   args.executor, args.at, 0), TRUE), args)

\* handle_step_add_tree once its call c has returned
StepTreeAdded(r, c, args) ==
    LET r3 == println(Awaited(r, c), Line("Created step ID: ", c.db.seq.step, ""))
        r4 == print_status_changes(r3, c.log)
        r5 == notify_after_step_changes(r4, c.log)
    IN notify_plans_completed(r5, c.log)

handle_step_add_tree(db, session_id, args) ==
    LET r1 == require_non_empty(Started(db), "step content", args.content)
        r2 == require_all_non_empty(r1, "goal content", args.goals)
        input == StepInputOf(args)
    IN  StepTreeAdded(r2,
                      Call("add_step_tree", session_id, args.plan_id, args, db,
                      add_step_tree(db, session_id, args.plan_id, input.content, input.executor,
                      input.goals, 0), TRUE), args)

handle_step_show_next(db, session_id, args) ==
    LET active == get_active_plan(db, session_id)
        next == next_step_with_conn(db, Unwrap(active))
    IN  IF active = None THEN println(Started(db), Line("No active plan.", 0, ""))
        ELSE IF next = None THEN println(Started(db), Line("No pending step.", 0, ""))
        ELSE print_lines(Started(db), format_step_detail(db, Unwrap(next)))

\* handle_step_update once its call c has returned
StepUpdated(r, c, args) ==
    LET r2 == println(Awaited(r, c), Line("Updated step ID: ", args.id, ""))
        r3 == print_status_changes(r2, c.log)
        r4 == IF Ok(r3) /\ args.changes.status = Some("done")
                 /\ r3.db.steps[args.id].status = "done"
              THEN notify_next_step_for_plan(r3, r3.db.steps[args.id].plan_id)
              ELSE r3
    IN notify_plans_completed(r4, c.log)

handle_step_update(db, session_id, args) ==
    LET r1 == require_opt_non_empty(Started(db), "step content", args.changes.content)
    IN  StepUpdated(r1,
                    Call("update_step", session_id, args.id, args.changes, db,
                    update_step(db, session_id, args.id, args.changes, 0), TRUE), args)

\* handle_step_comment once its call c has returned
StepCommented(r, c, args) ==
    println(Awaited(r, c), Line("Updated step comments for {} plans.", Len(c.rows), ""))

handle_step_comment(db, session_id, args) ==
    LET r == parse_comment_pairs(Started(db), "step", args)
    IN  StepCommented(r,
                      Call("comment_steps", session_id, 0, args, db,
                      comment_steps(db, session_id, args, 0), TRUE), args)

\* handle_step_done once its call c has returned
StepMarkedDone(r, c, args) ==
    LET r1 == println(Awaited(r, c), Line("Step ID: {} marked done.", args.id, ""))
        r2 == print_status_changes(r1, c.log)
        r3 == IF Ok(r2) THEN notify_next_step_for_plan(r2, r2.db.steps[args.id].plan_id) ELSE r2
    IN notify_plans_completed(r3, c.log)

handle_step_done(db, session_id, args) ==
    StepMarkedDone(Started(db),
                   Call("set_step_done_with_goals", session_id, args.id, args.all_goals, db,
                       set_step_done_with_goals(db, session_id, args.id, args.all_goals, 0), TRUE), args)

\* a plausible slip: the position is handed to move_step unchecked
handle_step_move_unchecked(db, session_id, args) ==
    LET c == Call("move_step", session_id, args.id, args.to, db,
                  move_step(db, session_id, args.id, args.to, 0), TRUE)
    IN println(Awaited(Started(db), c), Line("Reordered steps for plan ID: ", 0, ""))

handle_step_move(db, session_id, args) ==
    LET r == IF args.to = 0
             THEN Refuse(Started(db), "InvalidInput", Ref("position starts at 1", <<>>, ""))
             ELSE Started(db)
        c == Call("move_step", session_id, args.id, args.to, db,
                  move_step(db, session_id, args.id, args.to, 0), TRUE)
    IN println(Awaited(r, c), Line("Reordered steps for plan ID: ", 0, ""))

\* handle_step_remove once its call c has returned
StepsRemoved(r, c, args) ==
    LET r1 == println(Awaited(r, c), Line("Removed {} steps.", c.count, ""))
    IN print_status_changes(r1, c.log)

handle_step_remove(db, session_id, args) ==
    LET r == IF args.ids = <<>>
             THEN Refuse(Started(db), "InvalidInput", Ref("no step ids provided", <<>>, ""))
             ELSE Started(db)
    IN  StepsRemoved(r,
                     Call("delete_steps", session_id, 0, args.ids, db,
                     delete_steps(db, session_id, args.ids, 0), TRUE), args)

\* ---------------------------------------------------------- goal commands
\* print_status_changes, notify_after_step_changes, notify_plans_completed
GoalsChanged(r, changes) ==
    notify_plans_completed(notify_after_step_changes(print_status_changes(r, changes), changes),
                           changes)

\* handle_goal_add once its call c has returned
GoalsAdded(r, c, args) ==
    LET r3 == println(Awaited(r, c), Line("Created {} goals for step ID: ", args.step_id, ""))
    IN get_step(GoalsChanged(r3, c.log), args.step_id)

handle_goal_add(db, session_id, args) ==
    LET r1 == IF args.contents = <<>>
              THEN Refuse(Started(db), "InvalidInput", Ref("no contents provided", <<>>, ""))
              ELSE Started(db)
        r2 == require_all_non_empty(r1, "goal content", args.contents)
    IN  GoalsAdded(r2,
                   Call("add_goals_batch", session_id, args.step_id, args, db,
                   add_goals_batch(db, session_id, args.step_id, args.contents, "todo", 0), TRUE), args)

\* handle_goal_update once its call c has returned
GoalUpdated(r, c, args) ==
    LET r2 == println(Awaited(r, c), Line("Updated goal {}.", args.id, ""))
        r3 == GoalsChanged(r2, c.log)
    IN IF Ok(r3) THEN get_step(r3, r3.db.goals[args.id].step_id) ELSE r3

handle_goal_update(db, session_id, args) ==
    LET r1 == require_opt_non_empty(Started(db), "goal content", args.changes.content)
    IN  GoalUpdated(r1,
                    Call("update_goal", session_id, args.id, args.changes, db,
                    update_goal(db, session_id, args.id, args.changes, 0), TRUE), args)

\* handle_goal_comment once its call c has returned
GoalCommented(r, c, args) ==
    println(Awaited(r, c), Line("Updated goal comments for {} plans.", Len(c.rows), ""))

handle_goal_comment(db, session_id, args) ==
    LET r == parse_comment_pairs(Started(db), "goal", args)
    IN  GoalCommented(r,
                      Call("comment_goals", session_id, 0, args, db,
                      comment_goals(db, session_id, args, 0), TRUE), args)

\* handle_goal_done once set_goal_status has returned as call c
GoalMarkedDone(r, c, id) ==
    LET r1 == println(Awaited(r, c), Line("Goal ID: {} marked done.", id, ""))
        r2 == GoalsChanged(r1, c.log)
    IN IF Ok(r2) THEN get_step(r2, r2.db.goals[id].step_id) ELSE r2

\* handle_goal_done once set_goals_status has returned as call c
GoalsMarkedDone(r, c) ==
    GoalsChanged(println(Awaited(r, c), Line("Goals marked done: {}.", 0, "")), c.log)

handle_goal_done(db, session_id, args) ==
    IF Len(args.ids) = 1
    THEN GoalMarkedDone(Started(db),
             Call("update_goal", session_id, args.ids[1], Some("done"), db,
                  set_goal_status(db, session_id, args.ids[1], "done", 0), TRUE),
             args.ids[1])
    ELSE GoalsMarkedDone(Started(db),
             Call("set_goals_status", session_id, 0, args.ids, db,
                  set_goals_status(db, session_id, args.ids, "done", 0), TRUE))

\* handle_goal_remove once its call c has returned
GoalsRemoved(r, c, args) ==
    LET r1 == println(Awaited(r, c), Line("Removed {} goals.", c.count, ""))
    IN GoalsChanged(r1, c.log)

handle_goal_remove(db, session_id, args) ==
    LET r == IF args.ids = <<>>
             THEN Refuse(Started(db), "InvalidInput", Ref("no goal ids provided", <<>>, ""))
             ELSE Started(db)
    IN  GoalsRemoved(r,
                     Call("delete_goals", session_id, 0, args.ids, db,
                     delete_goals(db, session_id, args.ids, 0), TRUE), args)

\* ------------------------------------------------- main.rs: invocations
\* handle_plan, handle_step, handle_goal: the handler of each command that
\* writes the store or that the stop hook runs (list, search, show and
\* export only read and print)
handle(db, session_id, cmd, args) ==
    CASE cmd = "plan add" -> handle_plan_add(db, session_id, args)
      [] cmd = "plan add-tree" -> handle_plan_add_tree(db, session_id, args)
      [] cmd = "plan comment" -> handle_plan_comment(db, session_id, args)
      [] cmd = "plan update" -> handle_plan_update(db, session_id, args)
      [] cmd = "plan done" -> handle_plan_done(db, session_id, args)
      [] cmd = "plan remove" -> handle_plan_remove(db, session_id, args)
      [] cmd = "plan activate" -> handle_plan_activate(db, session_id, args)
      [] cmd = "plan show-active" -> handle_plan_active(db, session_id, args)
      [] cmd = "plan deactivate" -> handle_plan_deactivate(db, session_id, args)
      [] cmd = "step add" -> handle_step_add(db, session_id, args)
      [] cmd = "step add-tree" -> handle_step_add_tree(db, session_id, args)
      [] cmd = "step show-next" -> handle_step_show_next(db, session_id, args)
      [] cmd = "step comment" -> handle_step_comment(db, session_id, args)
      [] cmd = "step update" -> handle_step_update(db, session_id, args)
      [] cmd = "step done" -> handle_step_done(db, session_id, args)
      [] cmd = "step move" -> handle_step_move(db, session_id, args)
      [] cmd = "step remove" -> handle_step_remove(db, session_id, args)
      [] cmd = "goal add" -> handle_goal_add(db, session_id, args)
      [] cmd = "goal update" -> handle_goal_update(db, session_id, args)
      [] cmd = "goal comment" -> handle_goal_comment(db, session_id, args)
      [] cmd = "goal done" -> handle_goal_done(db, session_id, args)
      [] cmd = "goal remove" -> handle_goal_remove(db, session_id, args)

Commands == {"plan add", "plan add-tree", "plan comment", "plan update", "plan done", "plan remove", "plan activate", "plan show-active", "plan deactivate", 
             "step add", "step add-tree", "step show-next", "step comment", "step update", "step done", "step move", "step remove", 
             "goal add", "goal update", "goal comment", "goal done", "goal remove"}

StepSpecs(cap) ==
    [content : Texts, executor : Opt(cap.executors), goals : SeqsUpTo(Texts, 1)]

\* the arguments a command line may carry, within what the store has room for
Arguments(cmd, db, cap) ==
    CASE cmd = "plan add" -> {y \in PlanInputs : db.seq.plan < cap.plans}
      [] cmd = "plan add-tree" ->
           {y \in [input : PlanInputs, steps : SeqsUpTo(StepSpecs(cap), MaxBatch)] :
               /\ db.seq.plan < cap.plans
               /\ db.seq.step + Len(y.steps) <= cap.steps
               /\ db.seq.goal + SumGoals(y.steps, Len(y.steps)) <= cap.goals}
      [] cmd = "plan comment" -> Entries(PlanIds(cap))
      [] cmd = "plan update" -> [id : PlanIds(cap), changes : PlanChangesInputs]
      [] cmd \in {"plan done", "plan remove"} -> [id : PlanIds(cap)]
      [] cmd = "plan activate" -> [id : PlanIds(cap), force : BOOLEAN]
      [] cmd \in {"plan show-active", "plan deactivate", "step show-next"} -> {<<>>}
      [] cmd = "step add" ->
           {y \in [plan_id : PlanIds(cap), contents : Batches, executor : cap.executors,
                   at : Opt(Positions(cap))] :
               db.seq.step + Len(y.contents) <= cap.steps}
      [] cmd = "step add-tree" ->
           {y \in [plan_id : PlanIds(cap), content : Texts, executor : Opt(cap.executors),
                   goals : SeqsUpTo(Texts, 1)] :
               db.seq.step < cap.steps /\ db.seq.goal + Len(y.goals) <= cap.goals}
      [] cmd = "step comment" -> Entries(StepIds(cap))
      [] cmd = "step update" -> [id : StepIds(cap), changes : StepChangesInputs(cap)]
      [] cmd = "step done" -> [id : StepIds(cap), all_goals : BOOLEAN]
      [] cmd = "step move" -> [id : StepIds(cap), to : Positions(cap)]
      [] cmd = "step remove" -> [ids : IdLists(StepIds(cap))]
      [] cmd = "goal add" ->
           {y \in [step_id : StepIds(cap), contents : Batches] :
               db.seq.goal + Len(y.contents) <= cap.goals}
      [] cmd = "goal update" -> [id : GoalIds(cap), changes : GoalChangesInputs]
      [] cmd = "goal comment" -> Entries(GoalIds(cap))
      [] cmd \in {"goal done", "goal remove"} -> [ids : IdLists(GoalIds(cap))]

\* one run of the binary: the command, who ran it, and what it left
Invocation(cmd, session_id, args, r) ==
    [cmd |-> cmd, session |-> session_id, args |-> args,
     err |-> r.err, ref |-> r.ref, out |-> r.out, db |-> r.db]

Invocations(cmd, db, cap) ==
    {Invocation(cmd, s, x, handle(db, s, cmd, x)) :
        s \in Sessions, x \in Arguments(cmd, db, cap)}

PlanAdd(cap) ==
    \E s \in Sessions, x \in Arguments("plan add", Store, cap) :
        Commit(handle_plan_add(Store, s, x).db)

PlanAddTree(cap) ==
    \E s \in Sessions, x \in Arguments("plan add-tree", Store, cap) :
        Commit(handle_plan_add_tree(Store, s, x).db)

PlanComment(cap) ==
    \E s \in Sessions, x \in Arguments("plan comment", Store, cap) :
        Commit(handle_plan_comment(Store, s, x).db)

PlanUpdate(cap) ==
    \E s \in Sessions, x \in Arguments("plan update", Store, cap) :
        Commit(handle_plan_update(Store, s, x).db)

PlanDone(cap) ==
    \E s \in Sessions, x \in Arguments("plan done", Store, cap) :
        Commit(handle_plan_done(Store, s, x).db)

PlanRemove(cap) ==
    \E s \in Sessions, x \in Arguments("plan remove", Store, cap) :
        Commit(handle_plan_remove(Store, s, x).db)

PlanActivate(cap) ==
    \E s \in Sessions, x \in Arguments("plan activate", Store, cap) :
        Commit(handle_plan_activate(Store, s, x).db)

PlanActive(cap) ==
    \E s \in Sessions, x \in Arguments("plan show-active", Store, cap) :
        Commit(handle_plan_active(Store, s, x).db)

PlanDeactivate(cap) ==
    \E s \in Sessions, x \in Arguments("plan deactivate", Store, cap) :
        Commit(handle_plan_deactivate(Store, s, x).db)

StepAdd(cap) ==
    \E s \in Sessions, x \in Arguments("step add", Store, cap) :
        Commit(handle_step_add(Store, s, x).db)

StepAddTree(cap) ==
    \E s \in Sessions, x \in Arguments("step add-tree", Store, cap) :
        Commit(handle_step_add_tree(Store, s, x).db)

StepShowNext(cap) ==
    \E s \in Sessions, x \in Arguments("step show-next", Store, cap) :
        Commit(handle_step_show_next(Store, s, x).db)

StepComment(cap) ==
    \E s \in Sessions, x \in Arguments("step comment", Store, cap) :
        Commit(handle_step_comment(Store, s, x).db)

StepUpdate(cap) ==
    \E s \in Sessions, x \in Arguments("step update", Store, cap) :
        Commit(handle_step_update(Store, s, x).db)

StepDone(cap) ==
    \E s \in Sessions, x \in Arguments("step done", Store, cap) :
        Commit(handle_step_done(Store, s, x).db)

StepMove(cap) ==
    \E s \in Sessions, x \in Arguments("step move", Store, cap) :
        Commit(handle_step_move(Store, s, x).db)

StepRemove(cap) ==
    \E s \in Sessions, x \in Arguments("step remove", Store, cap) :
        Commit(handle_step_remove(Store, s, x).db)

GoalAdd(cap) ==
    \E s \in Sessions, x \in Arguments("goal add", Store, cap) :
        Commit(handle_goal_add(Store, s, x).db)

GoalUpdate(cap) ==
    \E s \in Sessions, x \in Arguments("goal update", Store, cap) :
        Commit(handle_goal_update(Store, s, x).db)

GoalComment(cap) ==
    \E s \in Sessions, x \in Arguments("goal comment", Store, cap) :
        Commit(handle_goal_comment(Store, s, x).db)

GoalDone(cap) ==
    \E s \in Sessions, x \in Arguments("goal done", Store, cap) :
        Commit(handle_goal_done(Store, s, x).db)

GoalRemove(cap) ==
    \E s \in Sessions, x \in Arguments("goal remove", Store, cap) :
        Commit(handle_goal_remove(Store, s, x).db)

CliStep(cap) ==
    \/ PlanAdd(cap)
    \/ PlanAddTree(cap)
    \/ PlanComment(cap)
    \/ PlanUpdate(cap)
    \/ PlanDone(cap)
    \/ PlanRemove(cap)
    \/ PlanActivate(cap)
    \/ PlanActive(cap)
    \/ PlanDeactivate(cap)
    \/ StepAdd(cap)
    \/ StepAddTree(cap)
    \/ StepShowNext(cap)
    \/ StepComment(cap)
    \/ StepUpdate(cap)
    \/ StepDone(cap)
    \/ StepMove(cap)
    \/ StepRemove(cap)
    \/ GoalAdd(cap)
    \/ GoalUpdate(cap)
    \/ GoalComment(cap)
    \/ GoalDone(cap)
    \/ GoalRemove(cap)

\* ------------------------------------------------ hooks.rs: the stop hook
\* session ids as the payload may spell them: chunks, " " being a space
SessionTexts == {<<>>, Blank, <<"s1">>, <<" ", "s1", " ">>, <<"s2">>, <<"s3">>}

\* what stdin holds: nothing readable, only white space, no JSON object of
\* the expected shape, or a HookInput
HookStdin ==
    [kind : {"unreadable", "blank", "unparsable"}, session_id : {None}, cwd : {None}]
        \cup [kind : {"json"}, session_id : Opt(SessionTexts), cwd : Opt({<<>>, Blank, Word})]

\* the child process: not started, ended by an error of run(), or run
Spawns == {"spawn fails", "exits with error", "runs"}

unwrap_or_default(o) == IF IsSome(o) THEN Unwrap(o) ELSE <<>>

\* main.rs: the session the child runs for (the hook passes a non-blank id)
resolve_session_id(session_id) == Trim(session_id)[1]

\* Option<String>: stdout followed by stderr of `planpilot step show-next`
planpilot_show_next(db, cwd, session_id, spawn) ==
    IF spawn = "spawn fails" THEN None
    ELSE IF spawn = "exits with error" THEN Some(<<Line("Error: ", 0, "")>>)
    ELSE Some(handle_step_show_next(db, resolve_session_id(session_id), <<>>).out)

\* the first line "Executor: <word>", if its word is not empty
extract_executor(output) ==
    LET found == SelectSeq(output, LAMBDA l : l.text = "Executor: ")
    IN IF found = <<>> \/ found[1].word = "" THEN None ELSE Some(found[1].word)

\* a plausible slip: any pending step blocks, whoever it is assigned to
run_stop_hook_any_executor(db, stdin, spawn) ==
    LET session_id == unwrap_or_default(stdin.session_id)
        cwd == unwrap_or_default(stdin.cwd)
        output == planpilot_show_next(db, cwd, session_id, spawn)
    IN  IF stdin.kind # "json" THEN "approve"
        ELSE IF Trim(session_id) = <<>> \/ Trim(cwd) = <<>> THEN "approve"
        ELSE IF output = None THEN "approve"
        ELSE IF Unwrap(output) = <<>> THEN "approve"
        ELSE IF Unwrap(output)[1].text \in {"No active plan.", "No pending step."}
        THEN "approve"
        ELSE "block"

run_stop_hook(db, stdin, spawn) ==
    LET session_id == unwrap_or_default(stdin.session_id)
        cwd == unwrap_or_default(stdin.cwd)
        output == planpilot_show_next(db, cwd, session_id, spawn)
    IN  IF stdin.kind # "json" THEN "approve"
        ELSE IF Trim(session_id) = <<>> \/ Trim(cwd) = <<>> THEN "approve"
        ELSE IF output = None THEN "approve"
        ELSE IF Unwrap(output) = <<>> THEN "approve"
        ELSE IF Unwrap(output)[1].text \in {"No active plan.", "No pending step."}
        THEN "approve"
        ELSE IF extract_executor(Unwrap(output)) # Some("ai") THEN "approve"
        ELSE "block"

StopHookRuns(db) ==
    {[stdin |-> x, spawn |-> sp, decision |-> run_stop_hook(db, x, sp)] :
        x \in HookStdin, sp \in Spawns}

\* `planpilot hook stop` reads the store through its child and writes nothing
HookStop == \E h \in StopHookRuns(Store) : Commit(Store)

NextCli == CliStep(CliCaps) \/ HookStop

SpecCli == Init /\ [][NextCli]_vars

\* `step add --at 0` and `step move --to 0`
ZeroPositions ==
    {c \in Invocations("step add", Store, CliCaps) : c.args.at = Some(0)}
        \cup {c \in Invocations("step move", Store, CliCaps) : c.args.to = 0}

PositionRefused(c) == c.err = "InvalidInput" /\ c.ref.what = "position starts at 1"

\* C32: `step add --at 0` and `step move --to 0` fail with InvalidInput,
\* print nothing and leave the store unchanged, where App::add_steps_batch
\* and App::move_step would have taken the position; the error is "position
\* starts at 1" for every move and for every add whose contents are given
\* and non-blank (an add without contents or with a blank content is refused
\* for that, also with InvalidInput, before the position is looked at).
ZeroPositionRefused ==
    \A c \in ZeroPositions :
        /\ c.err = "InvalidInput"
        /\ c.db = Store
        /\ c.out = <<>>
        /\ c.cmd = "step move" => PositionRefused(c)
        /\ (c.cmd = "step add" /\ c.args.contents # <<>> /\ AllWords(c.args.contents))
              => PositionRefused(c)

\* two steps are stored: step 2 moved to position 0 and a step added at
\* position 0 are both refused, where move_step and add_steps_batch given
\* the same position would have put the step first
ZeroPositionRefusedWitness ==
    /\ \E c \in ZeroPositions :
          /\ c.cmd = "step move" /\ PositionRefused(c)
          /\ move_step(Store, c.session, c.args.id, 0, 0).err = "none"
          /\ move_step(Store, c.session, c.args.id, 0, 0).db # Store
    /\ \E c \in Invocations("step add", Store, [CliCaps EXCEPT !.steps = CliSteps + 1]) :
          /\ c.args.at = Some(0) /\ PositionRefused(c) /\ c.db = Store
          /\ LET t == add_steps_batch(Store, c.session, c.args.plan_id, c.args.contents,
                                      "todo", c.args.executor, c.args.at, 0)
             IN t.err = "none" /\ \E i \in DOMAIN t.db.steps :
                    i \notin DOMAIN steps /\ t.db.steps[i].sort_order = 1

\* the plans that invocation c found todo and left done
TurnedDone(c) ==
    {p \in DOMAIN plans \cap DOMAIN c.db.plans :
        plans[p].status = "todo" /\ c.db.plans[p].status = "done"}

PrintsComplete(c, p) == Line("Plan ID: {} is complete.", p, "") \in Range(c.out)

\* C36: whenever an invocation of a command commits a transition of a plan
\* to done, by `plan done` or `plan update` or by cascade from a step or
\* goal command, the same invocation prints the plan-complete notice for
\* that plan.
CompletionIsAnnounced ==
    \A cmd \in Commands :
        \A c \in Invocations(cmd, Store, CliCaps) :
            \A p \in TurnedDone(c) : PrintsComplete(c, p)

\* the same for every command but `step remove`
CompletionIsAnnouncedUnlessRemoved ==
    \A cmd \in Commands \ {"step remove"} :
        \A c \in Invocations(cmd, Store, CliCaps) :
            \A p \in TurnedDone(c) : PrintsComplete(c, p)

NoBindingOnDone(db) ==
    \A r \in db.active_plan :
        r.plan_id \in DOMAIN db.plans => db.plans[r.plan_id].status # "done"

\* C37: in every committed state the commands reach, no ActivePlan row
\* references a plan whose status is done; `plan activate` on a done plan
\* fails with InvalidInput and leaves the store as it was; and every
\* invocation that turns a plan done leaves no binding on it.
NoBindingOnDonePlan ==
    /\ NoBindingOnDone(Store)
    /\ \A c \in Invocations("plan activate", Store, CliCaps) :
          (c.args.id \in DOMAIN plans /\ plans[c.args.id].status = "done") =>
              c.err = "InvalidInput" /\ c.db = Store
    /\ \A cmd \in Commands :
          \A c \in Invocations(cmd, Store, CliCaps) :
              /\ NoBindingOnDone(c.db)
              /\ \A p \in TurnedDone(c) : \A r \in c.db.active_plan : r.plan_id # p

\* a plan bound to a session has one step left todo: `step done` on it
\* completes the plan and removes the binding, and `plan activate` of the
\* plan is refused from then on, also with --force
NoBindingOnDonePlanWitness ==
    \E r \in active_plan :
        \E c \in Invocations("step done", Store, CliCaps) :
            /\ c.err = "none" /\ steps[c.args.id].status = "todo"
            /\ r.plan_id \in TurnedDone(c) /\ c.db.active_plan = {}
            /\ \E a \in Invocations("plan activate", c.db, CliCaps) :
                  a.args.id = r.plan_id /\ a.args.force /\ a.err = "InvalidInput"

\* ------------------------------------- bindings edited behind the binary
\* The store after someone has rewritten active_plan.plan_id with foreign
\* keys off (tests/cli.rs show_active_clears_orphaned_active_plan): up to
\* two plans without steps, and for each session no binding or a binding
\* on any id up to MaxNamed, stored or not; no two bindings on one plan.
InitOrphan ==
    /\ plans \in UNION {[S -> [status : PlanStatus, last_session_id : {"s1"}]] :
                           S \in SUBSET (1..(MaxNamed - 1))}
    /\ steps = EmptyFn
    /\ goals = EmptyFn
    /\ active_plan \in {B \in SUBSET [session_id : Sessions, plan_id : 1..MaxNamed] :
                           \A a, b \in B :
                               (a.session_id = b.session_id \/ a.plan_id = b.plan_id) => a = b}
    /\ seq = [plan |-> MaxNamed - 1, step |-> 0, goal |-> 0]
    /\ guard = None
    /\ pc = [p \in Procs |-> "start"]
    /\ seen = [p \in Procs |-> EmptyStore]

SpecOrphan == InitOrphan /\ [][PlanActive(CliCaps)]_vars

\* `plan show-active` by the sessions whose binding names a missing plan
OrphanShows ==
    {c \in Invocations("plan show-active", Store, CliCaps) :
        \E r \in active_plan : r.session_id = c.session /\ r.plan_id \notin DOMAIN plans}

\* C33: if the calling session's ActivePlan row names a plan that is not
\* stored, `plan show-active` succeeds, prints that the plan was not found,
\* and removes that row and nothing else; `plan show-active` run again by
\* the same session prints "No active plan." and changes nothing.
OrphanedBindingCleared ==
    \A c \in OrphanShows :
        LET row == CHOOSE r \in active_plan : r.session_id = c.session
            again == handle_plan_active(c.db, c.session, <<>>)
        IN  /\ c.err = "none"
            /\ c.out = <<Line("Active plan ID: {} not found.", row.plan_id, "")>>
            /\ c.db = [Store EXCEPT !.active_plan = @ \ {row}]
            /\ again.err = "none"
            /\ again.out = <<Line("No active plan.", 0, "")>>
            /\ again.db = c.db

\* s1 is bound to a plan that is not stored and s2 to one that is:
\* show-active by s1 removes the binding of s1 and keeps that of s2
OrphanedBindingClearedWitness ==
    /\ \E r \in active_plan : r.session_id = "s2" /\ r.plan_id \in DOMAIN plans
    /\ \E c \in OrphanShows :
          c.session = "s1" /\ Cardinality(c.db.active_plan) = 1 /\ c.db.active_plan # active_plan

\* the session a payload names, if it names one and a working directory
Named(stdin) ==
    IF /\ stdin.kind = "json"
       /\ stdin.session_id \notin {None, Some(<<>>), Some(Blank)}
       /\ stdin.cwd \notin {None, Some(<<>>), Some(Blank)}
    THEN {s \in {"s1", "s2", "s3"} : \E k \in 1..Len(Unwrap(stdin.session_id)) :
                                        Unwrap(stdin.session_id)[k] = s}
    ELSE {}

\* session s has an active plan whose first todo step, by sort_order and
\* then id, is assigned to ai
NextPendingIsAi(s) ==
    \E r \in active_plan :
        /\ r.session_id = s
        /\ \E i \in StepsOfPlan(Store, r.plan_id) :
              /\ steps[i].status = "todo" /\ steps[i].executor = "ai"
              /\ \A j \in StepsOfPlan(Store, r.plan_id) :
                    steps[j].status = "todo" =>
                        \/ steps[i].sort_order < steps[j].sort_order
                        \/ steps[i].sort_order = steps[j].sort_order /\ i <= j

\* C35: the stop hook answers "block" if and only if its payload names a
\* session and a working directory, its child process ran, and that session
\* has an active plan whose next pending step is assigned to ai; in every
\* other case it answers "approve".
StopHookBlocksForAiStep ==
    \A h \in StopHookRuns(Store) :
        /\ h.decision \in {"approve", "block"}
        /\ h.decision = "block" <=>
              /\ h.spawn = "runs"
              /\ \E s \in Named(h.stdin) : NextPendingIsAi(s)

\* s1 is on a plan whose first pending step is assigned to ai although a
\* human step has the lower id, s2 has no active plan: the hook blocks for
\* s1, also spelled with spaces, and approves for s2, for a payload without
\* cwd and for a child that could not be started
StopHookBlocksForAiStepWitness ==
    /\ NextPendingIsAi("s1")
    /\ \E i, j \in DOMAIN steps :
          /\ i < j /\ steps[i].plan_id = steps[j].plan_id
          /\ steps[i].status = "todo" /\ steps[i].executor = "human"
          /\ steps[j].sort_order < steps[i].sort_order
    /\ run_stop_hook(Store, [kind |-> "json", session_id |-> Some(<<" ", "s1", " ">>),
                             cwd |-> Some(Word)], "runs") = "block"
    /\ run_stop_hook(Store, [kind |-> "json", session_id |-> Some(<<"s2">>),
                             cwd |-> Some(Word)], "runs") = "approve"
    /\ run_stop_hook(Store, [kind |-> "json", session_id |-> Some(<<"s1">>),
                             cwd |-> None], "runs") = "approve"
    /\ run_stop_hook(Store, [kind |-> "json", session_id |-> Some(<<"s1">>),
                             cwd |-> Some(Word)], "spawn fails") = "approve"

====
